---- MODULE Spec2Model ----
(***************************************************************************)
(* Trading bot core: strategy registry, risk evaluator, order executor     *)
(* (local mirror of open positions) and the cycle engine run_once.         *)
(*                                                                         *)
(* Conventions                                                             *)
(*  - Python None is the value None (-1) where an integer is expected      *)
(*    (magic numbers live in [0, 2^31)), NoneStr where a string is         *)
(*    expected and NoRestriction where a list of symbols is expected.      *)
(*  - A mirror (open_positions) is a function from key strings to Position *)
(*    records; the empty dict is the function with empty domain.           *)
(*  - A drawdown is the exact fraction <<num, den>> (den > 0) standing for *)
(*    num / den percent; float rounding is not modelled.                   *)
(*  - Position/OrderRequest fields that no decision of the core reads      *)
(*    (volume, stop_loss, take_profit, open_time) are left out.            *)
(***************************************************************************)
EXTENDS Integers, Sequences, FiniteSets, TLC

VARIABLES
    hash_of,             \* md5-derived candidate of each strategy name
    strategy_to_magic,   \* StrategyRegistry._strategy_to_magic
    magic_to_strategy,   \* StrategyRegistry._magic_to_strategy
    open_positions,      \* OrderExecutor.open_positions (the local mirror)
    trade_history,       \* TradingBot.trade_history
    broker_positions,    \* positions open at the broker
    closed_trades,       \* closed trades the broker reports (list)
    pc,                  \* position of the engine inside run_once
    cycle,               \* number of run_once calls started
    sym_idx,             \* index of the symbol being processed
    strat_idx,           \* index of the strategy being processed
    signals,             \* signals of the current strategy still to handle
    cycle_log,           \* what happened so far in the current cycle
    dedup_count,         \* BUY/SELL orders sent per (strategy, symbol) while
                         \* the deduplication precondition has held
    call,                \* harness: the last call and its pre-state
    config,              \* which configuration the engine was built with
    driver               \* loop driver (run_forever / run_synchronized)

vars == <<hash_of, strategy_to_magic, magic_to_strategy, open_positions,
          trade_history, broker_positions, closed_trades, pc, cycle, sym_idx,
          strat_idx, signals, cycle_log, dedup_count, call,
                   config, driver>>

(***************************************************************************)
(* Bounds                                                                  *)
(***************************************************************************)
MaxCycles == 2
MaxSignals == 1
MaxTrades == 1
MaxPositions == 2
MaxLoops == 3
MaxResponse == 2
MaxRiskTrades == 3
MaxBars == 3
MaxTargets == 2
MaxWindowTimeframes == 3
MaxTerminalPositions == 3

(***************************************************************************)
(* Values and configuration                                                *)
(***************************************************************************)
None == -1

NoneStr == "None"

NoRestriction == {NoneStr}

\* 2**31 - 1, the largest value of (x % 2**31); 2**31 itself does not fit
\* TLC's 32-bit integers, so the reduction modulo 2**31 is written on this
\* value.
MagicMax == 2147483647

tf_order == <<"M1", "M5", "M15", "M30", "H1", "H4", "D1">>

\* Configured symbols, in configured order.
symbols == << [name |-> "EURUSD", min_timeframe |-> "M5"],
              [name |-> "GBPUSD", min_timeframe |-> "M1"] >>

\* Configured strategies, in configured order. In configuration "m30"
\* strategy_2 works on EURUSD with the M30 timeframe; in "finer" both
\* strategies work on EURUSD only, with a timeframe finer than its base.
strategies ==
    IF config = "m30"
    THEN << [name |-> "strategy_1", timeframes |-> <<"M5", "M1">>,
             allowed_symbols |-> NoRestriction],
            [name |-> "strategy_2", timeframes |-> <<"M30">>,
             allowed_symbols |-> {"EURUSD"}] >>
    ELSE IF config = "finer"
    THEN << [name |-> "strategy_1", timeframes |-> <<"M1">>,
             allowed_symbols |-> {"EURUSD"}],
            [name |-> "strategy_2", timeframes |-> <<"M1">>,
             allowed_symbols |-> {"EURUSD"}] >>
    ELSE << [name |-> "strategy_1", timeframes |-> <<"M5", "M1">>,
             allowed_symbols |-> NoRestriction],
            [name |-> "strategy_2", timeframes |-> <<"M5">>,
             allowed_symbols |-> {"GBPUSD"}] >>

SymbolNames == {symbols[i].name : i \in DOMAIN symbols}
StrategyNames == {"strategy_1", "strategy_2"}

\* RiskLimits of the engine under check; under "unlimited" no limit is
\* configured (dd_global None, both dictionaries empty).
risk_limits ==
    IF config = "unlimited"
    THEN [dd_global |-> None,
          dd_por_activo |-> [k \in {} |-> 0],
          dd_por_estrategia |-> [k \in {} |-> 0],
          initial_balance |-> 100]
    ELSE [dd_global |-> 50,
          dd_por_activo |-> [EURUSD |-> 20],
          dd_por_estrategia |-> [strategy_1 |-> 20],
          initial_balance |-> 100]

\* Values the 32-bit prefix of the md5 digest, reduced modulo 2^31, may take.
HashValues == {MagicMax}

PnlValues == {-30, -60}

Range(f) == {f[x] : x \in DOMAIN f}

SeqsUpTo(S, n) == UNION {[1..k -> S] : k \in 0..n}

(***************************************************************************)
(* Strategy registry                                                       *)
(***************************************************************************)
\* Variant: the probe advances by two.
inc_mod_by_two(magic_number) ==
    IF magic_number >= MagicMax - 1 THEN 0 ELSE magic_number + 2

\* (magic_number + 1) % (2**31) for magic_number in [0, 2**31)
inc_mod(magic_number) ==
    IF magic_number = MagicMax THEN 0 ELSE magic_number + 1

RECURSIVE probe(_, _)
probe(m2s, magic_number) ==
    IF magic_number \in DOMAIN m2s
    THEN probe(m2s, inc_mod(magic_number))
    ELSE magic_number

\* Variant: a name already registered is hashed and probed again.
register_strategy_no_lookup(reg, h, strategy_name) ==
    LET magic_number == probe(reg.m2s, h[strategy_name])
    IN [s2m |-> [n \in DOMAIN reg.s2m \cup {strategy_name} |->
                   IF n = strategy_name THEN magic_number ELSE reg.s2m[n]],
        m2s |-> [m \in DOMAIN reg.m2s \cup {magic_number} |->
                   IF m = magic_number THEN strategy_name ELSE reg.m2s[m]],
        ret |-> magic_number]

\* Variant: the hash candidate is taken as it is, collisions unresolved.
register_strategy_no_probe(reg, h, strategy_name) ==
    IF strategy_name \in DOMAIN reg.s2m
    THEN [s2m |-> reg.s2m, m2s |-> reg.m2s, ret |-> reg.s2m[strategy_name]]
    ELSE LET magic_number == h[strategy_name]
         IN [s2m |-> [n \in DOMAIN reg.s2m \cup {strategy_name} |->
                        IF n = strategy_name THEN magic_number ELSE reg.s2m[n]],
             m2s |-> [m \in DOMAIN reg.m2s \cup {magic_number} |->
                        IF m = magic_number THEN strategy_name ELSE reg.m2s[m]],
             ret |-> magic_number]

\* register_strategy on the registry reg = [s2m, m2s]; h[name] is the
\* candidate int(md5(name)[:8], 16) % 2**31;
\* the result is the registry after the call and the returned magic number.
register_strategy(reg, h, strategy_name) ==
    IF strategy_name \in DOMAIN reg.s2m
    THEN [s2m |-> reg.s2m, m2s |-> reg.m2s, ret |-> reg.s2m[strategy_name]]
    ELSE LET magic_number == probe(reg.m2s, h[strategy_name])
         IN [s2m |-> [n \in DOMAIN reg.s2m \cup {strategy_name} |->
                        IF n = strategy_name THEN magic_number ELSE reg.s2m[n]],
             m2s |-> [m \in DOMAIN reg.m2s \cup {magic_number} |->
                        IF m = magic_number THEN strategy_name ELSE reg.m2s[m]],
             ret |-> magic_number]

get_magic_number(s2m, strategy_name) ==
    IF strategy_name \in DOMAIN s2m THEN s2m[strategy_name] ELSE None

get_strategy_name(m2s, magic_number) ==
    IF magic_number \in DOMAIN m2s THEN m2s[magic_number] ELSE NoneStr

is_registered(s2m, strategy_name) == strategy_name \in DOMAIN s2m

\* TradingBot.__post_init__: register every configured strategy in order.
RECURSIVE post_init(_, _, _)
post_init(reg, h, i) ==
    IF i > Len(strategies) THEN reg
    ELSE post_init(register_strategy(reg, h, strategies[i].name), h, i + 1)

(***************************************************************************)
(* Risk evaluator                                                          *)
(***************************************************************************)
\* a/b > c/d for positive denominators
FracGT(a, b) == a[1] * b[2] > b[1] * a[2]

\* a/b <= limit
FracLE(a, limit) == a[1] <= limit * a[2]

\* Variant: the drawdown of the last trade is reported, not the largest.
RECURSIVE current_dd_loop(_, _, _, _)
current_dd_loop(trades, i, equity, max_equity) ==
    LET e == equity + trades[i].pnl
        me == IF e > max_equity THEN e ELSE max_equity
    IN IF i = Len(trades) THEN <<(me - e) * 100, me>>
       ELSE current_dd_loop(trades, i + 1, e, me)

calculate_drawdown_current(trades) ==
    IF trades = <<>> THEN <<0, 1>>
    ELSE current_dd_loop(trades, 1, risk_limits.initial_balance,
                         risk_limits.initial_balance)

RECURSIVE drawdown_loop(_, _, _, _, _)
drawdown_loop(trades, i, equity, max_equity, max_drawdown) ==
    IF i > Len(trades) THEN max_drawdown
    ELSE LET e == equity + trades[i].pnl
             me == IF e > max_equity THEN e ELSE max_equity
             current_dd == <<(me - e) * 100, me>>
             md == IF FracGT(current_dd, max_drawdown)
                   THEN current_dd ELSE max_drawdown
         IN drawdown_loop(trades, i + 1, e, me, md)

_calculate_drawdown(trades) ==
    IF trades = <<>> THEN <<0, 1>>
    ELSE drawdown_loop(trades, 1, risk_limits.initial_balance,
                       risk_limits.initial_balance, <<0, 1>>)

check_bot_risk_limits(trades) ==
    IF risk_limits.dd_global = None THEN TRUE
    ELSE FracLE(_calculate_drawdown(trades), risk_limits.dd_global)

\* Variant: the symbol's limit is compared with the drawdown of all trades.
check_symbol_risk_limits_unfiltered(symbol, trades) ==
    IF symbol \notin DOMAIN risk_limits.dd_por_activo THEN TRUE
    ELSE FracLE(_calculate_drawdown(trades), risk_limits.dd_por_activo[symbol])

check_symbol_risk_limits(symbol, trades) ==
    IF symbol \notin DOMAIN risk_limits.dd_por_activo THEN TRUE
    ELSE FracLE(_calculate_drawdown(SelectSeq(trades, LAMBDA t : t.symbol = symbol)),
                risk_limits.dd_por_activo[symbol])

check_strategy_risk_limits(strategy_name, trades) ==
    IF strategy_name \notin DOMAIN risk_limits.dd_por_estrategia THEN TRUE
    ELSE FracLE(_calculate_drawdown(
                    SelectSeq(trades, LAMBDA t : t.strategy_name = strategy_name)),
                risk_limits.dd_por_estrategia[strategy_name])

(***************************************************************************)
(* Order executor: pure functions on the mirror                            *)
(***************************************************************************)
EmptyMirror == [k \in {} |-> None]

startswith(s, prefix) ==
    Len(prefix) <= Len(s) /\ SubSeq(s, 1, Len(prefix)) = prefix

\* Variant: the key is the symbol alone.
position_key_symbol_only(symbol, magic_number) == symbol

\* f"{symbol}_{magic_number}" when a magic number is present, else symbol
_generate_position_key(symbol, magic_number) ==
    IF magic_number # None THEN symbol \o "_" \o ToString(magic_number)
    ELSE symbol

put(op, key, pos) ==
    [k \in DOMAIN op \cup {key} |-> IF k = key THEN pos ELSE op[k]]

drop(op, keys) == [k \in DOMAIN op \ keys |-> op[k]]

RECURSIVE rebuild(_, _, _)
rebuild(op, real_positions, i) ==
    IF i > Len(real_positions) THEN op
    ELSE rebuild(put(op, _generate_position_key(real_positions[i].symbol,
                                                real_positions[i].magic_number),
                     real_positions[i]),
                 real_positions, i + 1)

\* Variant: the rebuild runs on the old mirror (no clear).
sync_state_merge(op, resp) ==
    IF resp.raised THEN op
    ELSE rebuild(op, resp.positions, 1)

\* Variant: the mirror is cleared before the broker is asked.
sync_state_clear_first(op, resp) ==
    IF resp.raised THEN EmptyMirror
    ELSE rebuild(EmptyMirror, resp.positions, 1)

\* sync_state: resp is what get_open_positions did, [raised, positions].
\* The broker call comes first; the clear and the rebuild only run when it
\* returned.
sync_state(op, resp) ==
    IF resp.raised THEN op
    ELSE rebuild(EmptyMirror, resp.positions, 1)

_register_position(op, order_request) ==
    put(op, _generate_position_key(order_request.symbol, order_request.magic_number),
        [symbol |-> order_request.symbol,
         magic_number |-> order_request.magic_number,
         entry_price |-> 0,
         strategy_name |-> IF order_request.comment \in {NoneStr, ""}
                           THEN "unknown"
                           ELSE order_request.comment])

\* Variant: every entry of the symbol is removed, whatever the magic number.
remove_position_by_symbol(op, symbol, magic_number) ==
    drop(op, {k \in DOMAIN op : op[k].symbol = symbol})

_remove_position(op, symbol, magic_number) ==
    IF magic_number # None
    THEN drop(op, {_generate_position_key(symbol, magic_number)})
    ELSE drop(op, {k \in DOMAIN op : op[k].symbol = symbol})

\* Variant: the mirror is updated whatever result.success says.
execute_order_unchecked(op, order_request, result) ==
    [open_positions |->
        IF order_request.order_type \in {"BUY", "SELL"}
        THEN _register_position(op, order_request)
        ELSE IF order_request.order_type = "CLOSE"
             THEN _remove_position(op, order_request.symbol,
                                   order_request.magic_number)
             ELSE op,
     ret |-> result]

\* execute_order once send_market_order returned result (an OrderResult):
\* the mirror after the call and the value handed back to the caller.
execute_order(op, order_request, result) ==
    [open_positions |->
        IF ~result.success THEN op
        ELSE IF order_request.order_type \in {"BUY", "SELL"}
             THEN _register_position(op, order_request)
             ELSE IF order_request.order_type = "CLOSE"
                  THEN _remove_position(op, order_request.symbol,
                                        order_request.magic_number)
                  ELSE op,
     ret |-> result]

\* Variant: the lookup uses the bare symbol as key.
has_open_position_bare_key(op, symbol, strategy_name, magic_number) ==
    symbol \in DOMAIN op

has_open_position(op, symbol, strategy_name, magic_number) ==
    IF magic_number # None
    THEN _generate_position_key(symbol, magic_number) \in DOMAIN op
    ELSE \E k \in DOMAIN op :
            /\ op[k].symbol = symbol
            /\ \/ strategy_name = NoneStr
               \/ startswith(op[k].strategy_name, strategy_name)

(***************************************************************************)
(* Initial state: the engine right after construction (__post_init__ has   *)
(* registered the strategies), nothing open at the broker, empty history.  *)
(***************************************************************************)
EmptyRegistry == [s2m |-> [n \in {} |-> None], m2s |-> [m \in {} |-> None]]

NoOrder == [order_type |-> "NONE"]

\* Per-cycle record of what run_once has done so far.
\*   synced, pulled, bot_checked : the three opening phases have run
\*   mirror_empty  : the mirror was empty right after sync_state
\*   sym_checked   : symbols whose risk check has run
\*   fetched       : symbols whose data was fetched
\*   requested     : <<symbol, target_timeframes>> of the calls of
\*                   get_resampled_data
\*   generated     : <<strategy, symbol>> pairs whose generate_signals ran
\*   emitted       : <<strategy, symbol>> pairs for which a
\*                   SimpleExampleStrategy returned its BUY signal
\*   closed        : <<symbol, magic_number>> of the CLOSE orders the broker
\*                   accepted
\*   sent          : <<symbol, magic_number>> of the orders handed to
\*                   send_market_order
\*   n_sent        : number of send_market_order calls
\*   last          : the order handed to the broker by the last step, if any
\*   blocked       : the scopes whose risk check was false on the history of
\*                   an earlier cycle
\* What the last get_closed_trades of the cycle did; visible in the state
\* that follows _update_trade_history only.
NoPull == [outcome |-> "none", pre |-> <<>>]

NoneBlocked == [bot |-> FALSE, symbols |-> {}, strategies |-> {}]

\* The scopes blocked so far, once a cycle that ran on history trades is over.
blocked_after(blocked, trades) ==
    [bot |-> blocked.bot \/ ~check_bot_risk_limits(trades),
     symbols |-> blocked.symbols \cup
         {x \in SymbolNames : ~check_symbol_risk_limits(x, trades)},
     strategies |-> blocked.strategies \cup
         {x \in StrategyNames : ~check_strategy_risk_limits(x, trades)}]

EmptyLog == [synced |-> FALSE, pulled |-> FALSE, pull |-> NoPull,
             bot_checked |-> FALSE,
             mirror_empty |-> FALSE, sym_checked |-> {}, fetched |-> {},
             requested |-> {}, generated |-> {}, emitted |-> {}, sent |-> {},
             closed |-> {},
             n_sent |-> 0,
             last |-> NoOrder,
             blocked |-> NoneBlocked]

NoCall == [kind |-> "none"]

NoDriver == [mode |-> "none"]

\* The engine built with configuration c.
EngineBuilt(c) ==
    /\ config = c
    /\ hash_of \in [StrategyNames -> HashValues]
    /\ LET reg == post_init(EmptyRegistry, hash_of, 1)
       IN /\ strategy_to_magic = reg.s2m
          /\ magic_to_strategy = reg.m2s
    /\ open_positions = EmptyMirror
    /\ trade_history = <<>>
    /\ broker_positions = {}
    /\ closed_trades = <<>>
    /\ pc = "idle"
    /\ cycle = 0
    /\ sym_idx = 0
    /\ strat_idx = 0
    /\ signals = <<>>
    /\ cycle_log = EmptyLog
    /\ dedup_count = [p \in StrategyNames \X SymbolNames |-> 0]
    /\ call = NoCall

\* The engine built with configuration c, no loop driver started.
InitConfigured(c) == EngineBuilt(c) /\ driver = NoDriver

InitEngine == InitConfigured("base")

(***************************************************************************)
(* Broker, as the engine sees it through BrokerClient                      *)
(***************************************************************************)
\* send_market_order accepted by the broker: BUY/SELL opens a position
\* tagged with the order's symbol and magic number, CLOSE removes the
\* positions with that symbol and magic number.
broker_accept(positions, order_request) ==
    IF order_request.order_type \in {"BUY", "SELL"}
    THEN positions \cup
            {[symbol |-> order_request.symbol,
              magic_number |-> order_request.magic_number,
              entry_price |-> 1,
              strategy_name |-> IF order_request.comment \in {NoneStr, ""}
                                THEN "unknown" ELSE order_request.comment]}
    ELSE IF order_request.magic_number # None
         THEN {q \in positions :
                 ~(q.symbol = order_request.symbol
                   /\ q.magic_number = order_request.magic_number)}
         ELSE {q \in positions : q.symbol # order_request.symbol}

\* get_open_positions: the open positions as a list.
RECURSIVE get_open_positions(_)
get_open_positions(positions) ==
    IF positions = {} THEN <<>>
    ELSE LET q == CHOOSE q \in positions : TRUE
         IN <<q>> \o get_open_positions(positions \ {q})

\* Between two cycles a trade closes at the broker and shows up in
\* get_closed_trades.
AddClosedTrade ==
    /\ pc \in {"idle", "returned", "raised"}
    /\ cycle < MaxCycles
    /\ Len(closed_trades) < MaxTrades
    /\ \E symbol \in SymbolNames, strategy_name \in StrategyNames,
          pnl \in PnlValues :
          closed_trades' = Append(closed_trades,
              [symbol |-> symbol, strategy_name |-> strategy_name,
               entry_time |-> Len(closed_trades),
               exit_time |-> Len(closed_trades) + 1,
               pnl |-> pnl])
    /\ pc' = "idle"
    /\ cycle_log' = [EmptyLog EXCEPT !.blocked = cycle_log.blocked]
    /\ sym_idx' = 0
    /\ strat_idx' = 0
    /\ signals' = <<>>
    /\ UNCHANGED <<hash_of, strategy_to_magic, magic_to_strategy,
                   open_positions, trade_history, broker_positions, cycle,
                   dedup_count, call,
                   config, driver>>

(***************************************************************************)
(* Cycle engine: run_once, one action per step                             *)
(***************************************************************************)
trade_key(t) == <<t.entry_time, t.exit_time, t.symbol, t.strategy_name>>

\* The loop of _update_trade_history; existing_trades is computed once,
\* before the loop.
RECURSIVE append_new(_, _, _, _)
append_new(history, existing_trades, closed, i) ==
    IF i > Len(closed) THEN history
    ELSE append_new(IF trade_key(closed[i]) \notin existing_trades
                    THEN Append(history, closed[i]) ELSE history,
                    existing_trades, closed, i + 1)

\* Variant: the local history is replaced by the broker's list.
update_trade_history_replace(history, resp) ==
    IF resp.outcome # "ok" THEN history ELSE resp.trades

\* _update_trade_history: resp is what get_closed_trades did,
\* [outcome, trades] with outcome "ok", "unsupported" or "error".
_update_trade_history(history, resp) ==
    IF resp.outcome # "ok" THEN history
    ELSE append_new(history, {trade_key(history[j]) : j \in DOMAIN history},
                    resp.trades, 1)

\* tf_minutes and max_candles_by_tf of _calculate_data_window.
tf_minutes == [M1 |-> 1, M5 |-> 5, M15 |-> 15, M30 |-> 30, H1 |-> 60,
               H4 |-> 240, D1 |-> 1440]

max_candles_by_tf == [M1 |-> 1440, M5 |-> 1440, M15 |-> 1000, M30 |-> 720,
                      H1 |-> 500, H4 |-> 500, D1 |-> 500]

\* for tf in timeframes: the slowest timeframe met so far; order is the
\* order in which the set is iterated.
RECURSIVE slowest(_, _, _, _)
slowest(order, i, max_minutes, max_tf) ==
    IF i > Len(order) THEN [max_minutes |-> max_minutes, max_tf |-> max_tf]
    ELSE LET minutes == IF order[i] \in DOMAIN tf_minutes
                        THEN tf_minutes[order[i]] ELSE 1
         IN IF minutes > max_minutes
            THEN slowest(order, i + 1, minutes, order[i])
            ELSE slowest(order, i + 1, max_minutes, max_tf)

\* Variant: 500 candles whatever the timeframe.
calculate_data_window_flat(order) ==
    slowest(order, 1, 1, "M1").max_minutes * 500

\* _calculate_data_window, in minutes.
_calculate_data_window(order) ==
    LET found == slowest(order, 1, 1, "M1")
        max_candles == IF found.max_tf \in DOMAIN max_candles_by_tf
                       THEN max_candles_by_tf[found.max_tf] ELSE 500
    IN found.max_minutes * max_candles

can_operate(strategy, symbol_name) ==
    IF strategy.allowed_symbols # NoRestriction
    THEN symbol_name \in strategy.allowed_symbols
    ELSE TRUE

required_timeframes(symbol) ==
    UNION {Range(strategies[i].timeframes) :
             i \in {j \in DOMAIN strategies : can_operate(strategies[j], symbol.name)}}

tf_index(tf) == CHOOSE i \in DOMAIN tf_order : tf_order[i] = tf

\* Variant: every required timeframe is kept.
compatible_timeframes_all(required, min_timeframe) == required

compatible_timeframes(required, min_timeframe) ==
    IF min_timeframe \notin Range(tf_order) THEN required
    ELSE {tf \in required :
            \/ tf \notin Range(tf_order)
            \/ tf_index(tf) >= tf_index(min_timeframe)}

\* Keys of _TIMEFRAME_MAP in data_fetcher.
_TIMEFRAME_MAP == {"M1", "M5", "M15", "H1", "H4", "D1"}

\* get_resampled_data raises ValueError before any broker call.
unsupported_timeframe(symbol, target_timeframes) ==
    \/ symbol.min_timeframe \notin _TIMEFRAME_MAP
    \/ \E tf \in target_timeframes \cup {symbol.min_timeframe} :
          tf \notin _TIMEFRAME_MAP

\* Minutes of the pandas frequencies of _TIMEFRAME_MAP
\* ("1min", "5min", "15min", "1H", "4H", "1D").
freq_minutes == [M1 |-> 1, M5 |-> 5, M15 |-> 15, H1 |-> 60, H4 |-> 240,
                 D1 |-> 1440]

RECURSIVE sorted(_)
sorted(S) ==
    IF S = {} THEN <<>>
    ELSE LET m == CHOOSE x \in S : \A y \in S : x <= y
         IN <<m>> \o sorted(S \ {m})

RECURSIVE sum_volume(_, _)
sum_volume(raw, idx) ==
    IF idx = {} THEN 0
    ELSE LET i == CHOOSE x \in idx : TRUE
         IN raw[i].volume + sum_volume(raw, idx \ {i})

\* Left edge of the bin of width minutes that holds time t.
bin_of(t, minutes) == (t \div minutes) * minutes

\* Variant: the close of a bar is the close of the first bar of its bin.
resample_close_first(raw, minutes) ==
    LET bins == sorted({bin_of(raw[i].t, minutes) : i \in DOMAIN raw})
    IN [k \in 1..Len(bins) |->
          LET idx == {i \in DOMAIN raw : bin_of(raw[i].t, minutes) = bins[k]}
              first == CHOOSE i \in idx : \A j \in idx : i <= j
          IN [t |-> bins[k],
              open |-> raw[first].open,
              high |-> CHOOSE h \in {raw[i].high : i \in idx} :
                          \A i \in idx : raw[i].high <= h,
              low |-> CHOOSE l \in {raw[i].low : i \in idx} :
                          \A i \in idx : l <= raw[i].low,
              close |-> raw[first].close,
              volume |-> sum_volume(raw, idx)]]

\* raw.resample(freq).agg(first, max, min, last, sum).dropna(): one bar per
\* bin that holds a bar of raw; the bins are aligned to midnight, closed
\* and labelled on the left; the empty bins are all-NaN and dropped.
resample(raw, minutes) ==
    LET bins == sorted({bin_of(raw[i].t, minutes) : i \in DOMAIN raw})
    IN [k \in 1..Len(bins) |->
          LET idx == {i \in DOMAIN raw : bin_of(raw[i].t, minutes) = bins[k]}
              first == CHOOSE i \in idx : \A j \in idx : i <= j
              last == CHOOSE i \in idx : \A j \in idx : j <= i
          IN [t |-> bins[k],
              open |-> raw[first].open,
              high |-> CHOOSE h \in {raw[i].high : i \in idx} :
                          \A i \in idx : raw[i].high <= h,
              low |-> CHOOSE l \in {raw[i].low : i \in idx} :
                          \A i \in idx : l <= raw[i].low,
              close |-> raw[last].close,
              volume |-> sum_volume(raw, idx)]]

NoData == [tf \in {} |-> <<>>]

\* MarketDataService.get_resampled_data. resp is what get_ohlcv did,
\* [raised, bars]; failing holds the targets whose resample raises, which
\* are logged and left out.
get_resampled_data(symbol, target_timeframes, resp, failing) ==
    IF unsupported_timeframe(symbol, target_timeframes)
    THEN [outcome |-> "ValueError", data |-> NoData]
    ELSE IF resp.raised
    THEN [outcome |-> "RuntimeError", data |-> NoData]
    ELSE IF resp.bars = <<>>
    THEN [outcome |-> "ok",
          data |-> [tf \in {symbol.min_timeframe} |-> resp.bars]]
    ELSE [outcome |-> "ok",
          data |-> [tf \in ((target_timeframes \ failing)
                            \cup {symbol.min_timeframe}) |->
                      IF tf = symbol.min_timeframe THEN resp.bars
                      ELSE resample(resp.bars, freq_minutes[tf])]]

cur_symbol == symbols[sym_idx]

cur_strategy == strategies[strat_idx]

Quiet(log) == [log EXCEPT !.last = NoOrder, !.pull = NoPull]

RegistryUnchanged == UNCHANGED <<hash_of, strategy_to_magic, magic_to_strategy>>

BrokerUnchanged == UNCHANGED <<broker_positions, closed_trades>>

\* Variant: run_once starts at the history refresh.
StartCycle_skip_sync ==
    /\ pc \in {"idle", "returned", "raised"}
    /\ cycle < MaxCycles
    /\ cycle' = cycle + 1
    /\ pc' = "history"
    /\ cycle_log' = [EmptyLog EXCEPT !.blocked =
                         blocked_after(cycle_log.blocked, trade_history)]
    /\ sym_idx' = 0
    /\ strat_idx' = 0
    /\ signals' = <<>>
    /\ RegistryUnchanged /\ BrokerUnchanged
    /\ UNCHANGED <<open_positions, trade_history, dedup_count, call,
                   config, driver>>

\* A caller invokes run_once.
StartCycle ==
    /\ pc \in {"idle", "returned", "raised"}
    /\ cycle < MaxCycles
    /\ cycle' = cycle + 1
    /\ pc' = "sync"
    /\ cycle_log' = [EmptyLog EXCEPT !.blocked =
                         blocked_after(cycle_log.blocked, trade_history)]
    /\ sym_idx' = 0
    /\ strat_idx' = 0
    /\ signals' = <<>>
    /\ RegistryUnchanged /\ BrokerUnchanged
    /\ UNCHANGED <<open_positions, trade_history, dedup_count, call,
                   config, driver>>

\* self.order_executor.sync_state()
SyncState ==
    /\ pc = "sync"
    /\ \E raised \in BOOLEAN :
          open_positions' = sync_state(open_positions,
                                [raised |-> raised,
                                 positions |-> get_open_positions(broker_positions)])
    /\ cycle_log' = [Quiet(cycle_log) EXCEPT !.synced = TRUE,
                        !.mirror_empty = (DOMAIN open_positions' = {})]
    /\ pc' = "history"
    /\ RegistryUnchanged /\ BrokerUnchanged
    /\ UNCHANGED <<trade_history, cycle, sym_idx, strat_idx, signals,
                   dedup_count, call,
                   config, driver>>

\* Variant: an error of get_closed_trades is not handled and ends run_once.
UpdateTradeHistory_uncaught ==
    /\ pc = "history"
    /\ \E outcome \in {"ok", "unsupported", "error"} :
          /\ trade_history' = _update_trade_history(trade_history,
                                [outcome |-> outcome, trades |-> closed_trades])
          /\ cycle_log' = [cycle_log EXCEPT !.last = NoOrder, !.pulled = TRUE,
                               !.pull = [outcome |-> outcome,
                                         pre |-> trade_history]]
          /\ pc' = IF outcome = "error" THEN "raised" ELSE "bot_risk"
    /\ RegistryUnchanged /\ BrokerUnchanged
    /\ UNCHANGED <<open_positions, cycle, sym_idx, strat_idx, signals,
                   dedup_count, call,
                   config, driver>>

\* self._update_trade_history()
UpdateTradeHistory ==
    /\ pc = "history"
    /\ \E outcome \in {"ok", "unsupported", "error"} :
          /\ trade_history' = _update_trade_history(trade_history,
                                [outcome |-> outcome, trades |-> closed_trades])
          /\ cycle_log' = [cycle_log EXCEPT !.last = NoOrder, !.pulled = TRUE,
                               !.pull = [outcome |-> outcome,
                                         pre |-> trade_history]]
    /\ pc' = "bot_risk"
    /\ RegistryUnchanged /\ BrokerUnchanged
    /\ UNCHANGED <<open_positions, cycle, sym_idx, strat_idx, signals,
                   dedup_count, call,
                   config, driver>>

\* Variant: the result of the global check is not acted upon.
CheckBotRisk_no_return ==
    /\ pc = "bot_risk"
    /\ cycle_log' = [Quiet(cycle_log) EXCEPT !.bot_checked = TRUE]
    /\ pc' = "symbol" /\ sym_idx' = 1
    /\ RegistryUnchanged /\ BrokerUnchanged
    /\ UNCHANGED <<open_positions, trade_history, cycle, strat_idx, signals,
                   dedup_count, call,
                   config, driver>>

\* if not check_bot_risk_limits(trade_history): return
CheckBotRisk ==
    /\ pc = "bot_risk"
    /\ cycle_log' = [Quiet(cycle_log) EXCEPT !.bot_checked = TRUE]
    /\ IF check_bot_risk_limits(trade_history)
       THEN pc' = "symbol" /\ sym_idx' = 1
       ELSE pc' = "returned" /\ sym_idx' = sym_idx
    /\ RegistryUnchanged /\ BrokerUnchanged
    /\ UNCHANGED <<open_positions, trade_history, cycle, strat_idx, signals,
                   dedup_count, call,
                   config, driver>>

\* for symbol in self.symbols: exhausted, run_once returns.
SymbolsDone ==
    /\ pc = "symbol"
    /\ sym_idx > Len(symbols)
    /\ pc' = "returned"
    /\ cycle_log' = Quiet(cycle_log)
    /\ RegistryUnchanged /\ BrokerUnchanged
    /\ UNCHANGED <<open_positions, trade_history, cycle, sym_idx, strat_idx,
                   signals, dedup_count, call,
                   config, driver>>

\* Head of the symbol loop: the symbol risk check and the required-timeframe
\* computation, up to the point where data is requested.
SymbolGate ==
    /\ pc = "symbol"
    /\ sym_idx <= Len(symbols)
    /\ cycle_log' = [Quiet(cycle_log) EXCEPT
                        !.sym_checked = @ \cup {cur_symbol.name}]
    /\ IF ~check_symbol_risk_limits(cur_symbol.name, trade_history)
       THEN pc' = "symbol" /\ sym_idx' = sym_idx + 1
       ELSE IF required_timeframes(cur_symbol) = {}
            THEN pc' = "symbol" /\ sym_idx' = sym_idx + 1
            ELSE IF compatible_timeframes(required_timeframes(cur_symbol),
                                          cur_symbol.min_timeframe) = {}
                 THEN pc' = "symbol" /\ sym_idx' = sym_idx + 1
                 ELSE pc' = "fetch" /\ sym_idx' = sym_idx
    /\ RegistryUnchanged /\ BrokerUnchanged
    /\ UNCHANGED <<open_positions, trade_history, cycle, strat_idx, signals,
                   dedup_count, call,
                   config, driver>>

\* The log after get_resampled_data was called for the current symbol.
request_logged(log) ==
    [log EXCEPT !.requested = @ \cup
        {<<cur_symbol.name,
           compatible_timeframes(required_timeframes(cur_symbol),
                                 cur_symbol.min_timeframe)>>}]

\* Variant: the failure of get_resampled_data is not caught.
FetchData_uncaught ==
    /\ pc = "fetch"
    /\ \E broker_fails \in BOOLEAN :
          IF \/ broker_fails
             \/ unsupported_timeframe(cur_symbol,
                    compatible_timeframes(required_timeframes(cur_symbol),
                                          cur_symbol.min_timeframe))
          THEN /\ pc' = "raised"
               /\ sym_idx' = sym_idx
               /\ strat_idx' = strat_idx
               /\ cycle_log' = request_logged(Quiet(cycle_log))
          ELSE /\ pc' = "strategy"
               /\ sym_idx' = sym_idx
               /\ strat_idx' = 1
               /\ cycle_log' = [request_logged(Quiet(cycle_log)) EXCEPT
                                   !.fetched = @ \cup {cur_symbol.name}]
    /\ RegistryUnchanged /\ BrokerUnchanged
    /\ UNCHANGED <<open_positions, trade_history, cycle, signals,
                   dedup_count, call, config, driver>>

\* get_resampled_data inside try/except: on failure the symbol is skipped.
FetchData ==
    /\ pc = "fetch"
    /\ \E broker_fails \in BOOLEAN :
          IF \/ broker_fails
             \/ unsupported_timeframe(cur_symbol,
                    compatible_timeframes(required_timeframes(cur_symbol),
                                          cur_symbol.min_timeframe))
          THEN /\ pc' = "symbol"
               /\ sym_idx' = sym_idx + 1
               /\ strat_idx' = strat_idx
               /\ cycle_log' = request_logged(Quiet(cycle_log))
          ELSE /\ pc' = "strategy"
               /\ sym_idx' = sym_idx
               /\ strat_idx' = 1
               /\ cycle_log' = [request_logged(Quiet(cycle_log)) EXCEPT
                                   !.fetched = @ \cup {cur_symbol.name}]
    /\ RegistryUnchanged /\ BrokerUnchanged
    /\ UNCHANGED <<open_positions, trade_history, cycle, signals,
                   dedup_count, call,
                   config, driver>>

\* for strategy in self.strategies: exhausted, next symbol.
StrategiesDone ==
    /\ pc = "strategy"
    /\ strat_idx > Len(strategies)
    /\ pc' = "symbol"
    /\ sym_idx' = sym_idx + 1
    /\ cycle_log' = Quiet(cycle_log)
    /\ RegistryUnchanged /\ BrokerUnchanged
    /\ UNCHANGED <<open_positions, trade_history, cycle, strat_idx, signals,
                   dedup_count, call,
                   config, driver>>

\* Variant: a blocked strategy ends the strategy loop (break).
StrategyBlocked_break ==
    /\ pc = "strategy"
    /\ strat_idx <= Len(strategies)
    /\ ~check_strategy_risk_limits(cur_strategy.name, trade_history)
    /\ strat_idx' = Len(strategies) + 1
    /\ pc' = "strategy"
    /\ cycle_log' = Quiet(cycle_log)
    /\ RegistryUnchanged /\ BrokerUnchanged
    /\ UNCHANGED <<open_positions, trade_history, cycle, sym_idx, signals,
                   dedup_count, call,
                   config, driver>>

\* if not check_strategy_risk_limits(strategy.name, trade_history): continue
StrategyBlocked ==
    /\ pc = "strategy"
    /\ strat_idx <= Len(strategies)
    /\ ~check_strategy_risk_limits(cur_strategy.name, trade_history)
    /\ strat_idx' = strat_idx + 1
    /\ pc' = "strategy"
    /\ cycle_log' = Quiet(cycle_log)
    /\ RegistryUnchanged /\ BrokerUnchanged
    /\ UNCHANGED <<open_positions, trade_history, cycle, sym_idx, signals,
                   dedup_count, call,
                   config, driver>>

SignalTypes == {"BUY", "SELL", "CLOSE", "HOLD"}

\* Signals a strategy may return: any symbol, any type; strategy_name and
\* timeframe are the strategy's own.
SignalsOf(strategy) ==
    {[symbol |-> x, strategy_name |-> strategy.name,
      timeframe |-> strategy.timeframes[1], signal_type |-> t] :
        x \in SymbolNames, t \in SignalTypes}

\* signals = strategy.generate_signals(data_by_timeframe), then the magic
\* number lookup (with lazy registration).
GenerateSignals ==
    /\ pc = "strategy"
    /\ strat_idx <= Len(strategies)
    /\ check_strategy_risk_limits(cur_strategy.name, trade_history)
    /\ \E sigs \in SeqsUpTo(SignalsOf(cur_strategy), MaxSignals) :
          /\ signals' = sigs
          /\ cycle_log' = [Quiet(cycle_log) EXCEPT
                !.generated = @ \cup {<<cur_strategy.name, cur_symbol.name>>}]
    /\ LET reg == register_strategy([s2m |-> strategy_to_magic,
                                     m2s |-> magic_to_strategy],
                                    hash_of, cur_strategy.name)
       IN IF get_magic_number(strategy_to_magic, cur_strategy.name) = None
          THEN strategy_to_magic' = reg.s2m /\ magic_to_strategy' = reg.m2s
          ELSE UNCHANGED <<strategy_to_magic, magic_to_strategy>>
    /\ pc' = "signal"
    /\ BrokerUnchanged
    /\ UNCHANGED <<hash_of, open_positions, trade_history, cycle, sym_idx,
                   strat_idx, dedup_count, call,
                   config, driver>>

\* Keys of the map get_resampled_data returns for a non-empty base series.
data_keys(symbol, target_timeframes) ==
    target_timeframes \cup {symbol.min_timeframe}

\* SimpleExampleStrategy.generate_signals: at most one BUY, for the symbol
\* of the data, when the strategy's first timeframe is in the data, the
\* symbol is allowed and the last close is above the one before (rising).
simple_generate_signals(strategy, symbol, keys, rising) ==
    IF strategy.timeframes = <<>> THEN <<>>
    ELSE IF strategy.timeframes[1] \notin keys THEN <<>>
    ELSE IF strategy.allowed_symbols # NoRestriction
            /\ symbol.name \notin strategy.allowed_symbols THEN <<>>
    ELSE IF rising
         THEN << [symbol |-> symbol.name, strategy_name |-> strategy.name,
                  timeframe |-> strategy.timeframes[1],
                  signal_type |-> "BUY"] >>
         ELSE <<>>

\* GenerateSignals when the strategies are SimpleExampleStrategy instances.
GenerateSimple ==
    /\ pc = "strategy"
    /\ strat_idx <= Len(strategies)
    /\ check_strategy_risk_limits(cur_strategy.name, trade_history)
    /\ \E rising \in BOOLEAN :
          LET sigs == simple_generate_signals(cur_strategy, cur_symbol,
                          data_keys(cur_symbol,
                              compatible_timeframes(required_timeframes(cur_symbol),
                                                    cur_symbol.min_timeframe)),
                          rising)
          IN /\ signals' = sigs
             /\ cycle_log' = [Quiet(cycle_log) EXCEPT
                   !.generated = @ \cup {<<cur_strategy.name, cur_symbol.name>>},
                   !.emitted = @ \cup {<<cur_strategy.name, sigs[i].symbol>> :
                                          i \in DOMAIN sigs}]
    /\ LET reg == register_strategy([s2m |-> strategy_to_magic,
                                     m2s |-> magic_to_strategy],
                                    hash_of, cur_strategy.name)
       IN IF get_magic_number(strategy_to_magic, cur_strategy.name) = None
          THEN strategy_to_magic' = reg.s2m /\ magic_to_strategy' = reg.m2s
          ELSE UNCHANGED <<strategy_to_magic, magic_to_strategy>>
    /\ pc' = "signal"
    /\ BrokerUnchanged
    /\ UNCHANGED <<hash_of, open_positions, trade_history, cycle, sym_idx,
                   strat_idx, dedup_count, call,
                   config, driver>>

\* generate_signals raises: nothing in run_once catches it.
GenerateRaises ==
    /\ pc = "strategy"
    /\ strat_idx <= Len(strategies)
    /\ check_strategy_risk_limits(cur_strategy.name, trade_history)
    /\ pc' = "raised"
    /\ cycle_log' = Quiet(cycle_log)
    /\ RegistryUnchanged /\ BrokerUnchanged
    /\ UNCHANGED <<open_positions, trade_history, cycle, sym_idx, strat_idx,
                   signals, dedup_count, call,
                   config, driver>>

\* for signal in signals: exhausted, next strategy.
SignalsDone ==
    /\ pc = "signal"
    /\ signals = <<>>
    /\ pc' = "strategy"
    /\ strat_idx' = strat_idx + 1
    /\ cycle_log' = Quiet(cycle_log)
    /\ RegistryUnchanged /\ BrokerUnchanged
    /\ UNCHANGED <<open_positions, trade_history, cycle, sym_idx, signals,
                   dedup_count, call,
                   config, driver>>

cur_magic == get_magic_number(strategy_to_magic, cur_strategy.name)

\* Variant: the order carries no magic number.
order_of_unattributed(signal, magic_number) ==
    [symbol |-> signal.symbol,
     order_type |-> signal.signal_type,
     comment |-> signal.strategy_name \o "-" \o signal.timeframe,
     magic_number |-> None]

order_of(signal, magic_number) ==
    [symbol |-> signal.symbol,
     order_type |-> signal.signal_type,
     comment |-> signal.strategy_name \o "-" \o signal.timeframe,
     magic_number |-> magic_number]

\* The order_executor.execute_order call of the engine: the broker accepts,
\* rejects, or send_market_order raises (the exception leaves run_once).
Dispatch(order_request) ==
    \E outcome \in {"accept", "reject", "raise"} :
        /\ open_positions' =
              IF outcome = "raise" THEN open_positions
              ELSE execute_order(open_positions, order_request,
                                 [success |-> (outcome = "accept")]).open_positions
        /\ broker_positions' =
              IF outcome = "accept"
              THEN broker_accept(broker_positions, order_request)
              ELSE broker_positions
        /\ pc' = IF outcome = "raise" THEN "raised" ELSE "signal"
        /\ signals' = IF outcome = "raise" THEN signals ELSE Tail(signals)
        /\ cycle_log' = [cycle_log EXCEPT
              !.sent = @ \cup {<<order_request.symbol,
                                 order_request.magic_number>>},
              !.n_sent = @ + 1,
              !.closed = IF outcome = "accept"
                            /\ order_request.order_type = "CLOSE"
                         THEN @ \cup {<<order_request.symbol,
                                        order_request.magic_number>>}
                         ELSE @,
              !.last = [symbol |-> order_request.symbol,
                        magic_number |-> order_request.magic_number,
                        order_type |-> order_request.order_type,
                        outcome |-> outcome]]
        /\ dedup_count' =
              [dedup_count EXCEPT
                  ![<<cur_strategy.name, order_request.symbol>>] =
                      IF order_request.order_type \in {"BUY", "SELL"}
                      THEN (IF outcome # "accept" THEN @
                            ELSE IF @ >= 2 THEN 2 ELSE @ + 1)
                      ELSE 0]

\* BUY/SELL signal: skipped when has_open_position, else dispatched.
SignalOpen ==
    /\ pc = "signal"
    /\ signals # <<>>
    /\ Head(signals).signal_type \in {"BUY", "SELL"}
    /\ IF has_open_position(open_positions, Head(signals).symbol,
                            cur_strategy.name, cur_magic)
       THEN /\ signals' = Tail(signals)
            /\ pc' = "signal"
            /\ cycle_log' = Quiet(cycle_log)
            /\ UNCHANGED <<open_positions, broker_positions, dedup_count>>
       ELSE Dispatch(order_of(Head(signals), cur_magic))
    /\ RegistryUnchanged
    /\ UNCHANGED <<closed_trades, trade_history, cycle, sym_idx, strat_idx, call,
                   config, driver>>

\* Variant: a CLOSE signal is dispatched without looking at the mirror.
SignalClose_unchecked ==
    /\ pc = "signal"
    /\ signals # <<>>
    /\ Head(signals).signal_type = "CLOSE"
    /\ Dispatch(order_of(Head(signals), cur_magic))
    /\ RegistryUnchanged
    /\ UNCHANGED <<closed_trades, trade_history, cycle, sym_idx, strat_idx, call,
                   config, driver>>

\* CLOSE signal: skipped unless has_open_position, else dispatched.
SignalClose ==
    /\ pc = "signal"
    /\ signals # <<>>
    /\ Head(signals).signal_type = "CLOSE"
    /\ IF ~has_open_position(open_positions, Head(signals).symbol,
                             cur_strategy.name, cur_magic)
       THEN /\ signals' = Tail(signals)
            /\ pc' = "signal"
            /\ cycle_log' = Quiet(cycle_log)
            /\ UNCHANGED <<open_positions, broker_positions>>
            /\ dedup_count' = [dedup_count EXCEPT
                  ![<<cur_strategy.name, Head(signals).symbol>>] = 0]
       ELSE Dispatch(order_of(Head(signals), cur_magic))
    /\ RegistryUnchanged
    /\ UNCHANGED <<closed_trades, trade_history, cycle, sym_idx, strat_idx, call,
                   config, driver>>

\* HOLD (or any other type): ignored.
SignalIgnored ==
    /\ pc = "signal"
    /\ signals # <<>>
    /\ Head(signals).signal_type \notin {"BUY", "SELL", "CLOSE"}
    /\ signals' = Tail(signals)
    /\ pc' = "signal"
    /\ cycle_log' = Quiet(cycle_log)
    /\ RegistryUnchanged /\ BrokerUnchanged
    /\ UNCHANGED <<open_positions, trade_history, cycle, sym_idx, strat_idx,
                   dedup_count, call,
                   config, driver>>

Next ==
    \/ StartCycle
    \/ SyncState
    \/ UpdateTradeHistory
    \/ CheckBotRisk
    \/ SymbolsDone
    \/ SymbolGate
    \/ FetchData
    \/ StrategiesDone
    \/ StrategyBlocked
    \/ GenerateSignals
    \/ GenerateRaises
    \/ SignalsDone
    \/ SignalOpen
    \/ SignalClose
    \/ SignalIgnored
    \/ AddClosedTrade

Init == InitEngine

Spec == Init /\ [][Next]_vars

\* The engine built with either configuration: in "m30" the data request
\* for EURUSD names a timeframe get_resampled_data does not support.
InitFetch == \E c \in {"base", "m30"} : InitConfigured(c)

SpecFetch == InitFetch /\ [][Next]_vars

\* The engine built with the base configuration or with "finer", in which
\* no symbol is left with a timeframe to fetch.
InitFilter == \E c \in {"base", "finer"} : InitConfigured(c)

SpecFilter == InitFilter /\ [][Next]_vars

(***************************************************************************)
(* The engine with SimpleExampleStrategy instances and no closed trades    *)
(* (the setting of test_magic_numbers).                                    *)
(***************************************************************************)
NextPair ==
    \/ StartCycle
    \/ SyncState
    \/ UpdateTradeHistory
    \/ CheckBotRisk
    \/ SymbolsDone
    \/ SymbolGate
    \/ FetchData
    \/ StrategiesDone
    \/ GenerateSimple
    \/ SignalsDone
    \/ SignalOpen

SpecPair == Init /\ [][NextPair]_vars

(***************************************************************************)
(* Loop drivers: run_forever and run_synchronized.                         *)
(* Time is in whole seconds since midnight UTC of the first day; run_once  *)
(* is seen through its outcome (returns, raises an exception, or the       *)
(* interrupt KeyboardInterrupt arrives).                                   *)
(***************************************************************************)
minute_of(t) == (t \div 60) % 60

hour_of(t) == (t \div 3600) % 24

\* now.replace(second=0, microsecond=0)
floor_minute(t) == t - (t % 60)

\* now.replace(minute=0, second=0, microsecond=0)
floor_hour(t) == t - (t % 3600)

\* The branches of run_synchronized that compute next_close.
next_close(timeframe_minutes, now) ==
    IF timeframe_minutes = 1 THEN floor_minute(now) + 60
    ELSE IF timeframe_minutes = 5
    THEN LET minutes_to_add == 5 - (minute_of(now) % 5)
         IN floor_minute(now)
              + 60 * (IF minutes_to_add = 5 THEN 0 ELSE minutes_to_add)
    ELSE IF timeframe_minutes = 15
    THEN LET minutes_to_add == 15 - (minute_of(now) % 15)
         IN floor_minute(now)
              + 60 * (IF minutes_to_add = 15 THEN 0 ELSE minutes_to_add)
    ELSE IF timeframe_minutes = 30
    THEN LET minutes_to_add == 30 - (minute_of(now) % 30)
         IN floor_minute(now)
              + 60 * (IF minutes_to_add = 30 THEN 0 ELSE minutes_to_add)
    ELSE IF timeframe_minutes = 60 THEN floor_hour(now) + 3600
    ELSE IF timeframe_minutes = 240
    THEN LET hours_to_add == 4 - (hour_of(now) % 4)
         IN floor_hour(now)
              + 3600 * (IF hours_to_add = 4 THEN 0 ELSE hours_to_add)
    ELSE LET minutes_to_add ==
                 timeframe_minutes - (minute_of(now) % timeframe_minutes)
         IN floor_minute(now)
              + 60 * (IF minutes_to_add = timeframe_minutes
                      THEN 0 ELSE minutes_to_add)

\* Values of timeframe_minutes: the six named branches and the generic one.
Timeframes == {1, 5, 15, 30, 60, 240, 10}

\* hh:mm:ss as seconds since midnight.
clock(h, mi, sec) == 3600 * h + 60 * mi + sec

\* Instants at which a driver is started.
StartInstants == {clock(17, 22, 17), clock(17, 25, 3), clock(17, 25, 6),
                  clock(17, 25, 17), clock(16, 30, 17), clock(17, 59, 58)}

\* Seconds that may pass between two readings of the clock, and the
\* duration of a run_once call.
Elapsed == {0, 1, 50}

StartedDrivers ==
    {[mode |-> md, pc |-> IF md = "forever" THEN "run" ELSE "top",
      now |-> t, timeframe_minutes |-> tf, wait_after_close |-> 5,
      sleep_seconds |-> 60, computed_at |-> None, execution_time |-> None,
      skipped |-> None, ran_for |-> None, loops |-> 0, runs |-> 0,
      errors |-> 0,
      cause |-> "none"] :
        md \in {"forever", "synchronized"}, t \in StartInstants,
        tf \in Timeframes}

DriverFrame ==
    UNCHANGED <<hash_of, strategy_to_magic, magic_to_strategy, open_positions,
                trade_history, broker_positions, closed_trades, pc, cycle,
                sym_idx, strat_idx, signals, cycle_log, dedup_count, call,
                config>>

\* Variant: a late execution instant is never skipped.
SyncCompute_no_skip ==
    /\ driver.mode = "synchronized"
    /\ driver.pc = "top"
    /\ driver.loops < MaxLoops
    /\ \E d \in Elapsed :
          LET now == driver.now + d
              execution_time == next_close(driver.timeframe_minutes, now)
                                  + driver.wait_after_close
              wait_seconds == execution_time - now
          IN driver' = [driver EXCEPT
                 !.now = now, !.computed_at = now,
                 !.execution_time = execution_time,
                 !.loops = @ + 1,
                 !.pc = IF wait_seconds > 0 THEN "sleep" ELSE "run"]
    /\ DriverFrame

\* Top of the run_synchronized loop: read the clock, compute next_close,
\* execution_time and wait_seconds, and choose between sleeping, skipping
\* (continue) and running at once.
SyncCompute ==
    /\ driver.mode = "synchronized"
    /\ driver.pc = "top"
    /\ driver.loops < MaxLoops
    /\ \E d \in Elapsed :
          LET now == driver.now + d
              execution_time == next_close(driver.timeframe_minutes, now)
                                  + driver.wait_after_close
              wait_seconds == execution_time - now
          IN driver' = [driver EXCEPT
                 !.now = now, !.computed_at = now,
                 !.execution_time = execution_time,
                 !.loops = @ + 1,
                 !.skipped = IF wait_seconds < -1
                             THEN execution_time ELSE @,
                 !.pc = IF wait_seconds > 0 THEN "sleep"
                        ELSE IF wait_seconds < -1 THEN "top"
                        ELSE "run"]
    /\ DriverFrame

\* time.sleep(wait_seconds): returns at execution_time, or the interrupt
\* arrives and the loop breaks.
SyncSleep ==
    /\ driver.mode = "synchronized"
    /\ driver.pc = "sleep"
    /\ \E interrupted \in BOOLEAN :
          driver' = IF interrupted
                    THEN [driver EXCEPT !.pc = "exited", !.cause = "interrupt"]
                    ELSE [driver EXCEPT !.pc = "run",
                                        !.now = driver.execution_time]
    /\ DriverFrame

\* Variant: an exception of run_once leaves the loop.
SyncRun_unhandled ==
    /\ driver.mode = "synchronized"
    /\ driver.pc = "run"
    /\ \E outcome \in {"returned", "raised", "interrupt"}, d \in Elapsed :
          driver' = [driver EXCEPT
              !.runs = @ + 1,
              !.now = @ + d,
              !.skipped = None,
              !.ran_for = driver.execution_time,
              !.errors = IF outcome = "raised" THEN @ + 1 ELSE @,
              !.cause = IF outcome = "interrupt" THEN "interrupt"
                        ELSE IF outcome = "raised" THEN "exception" ELSE @,
              !.pc = IF outcome = "returned" THEN "top" ELSE "exited"]
    /\ DriverFrame

\* self.run_once() inside the try of run_synchronized: KeyboardInterrupt
\* breaks the loop, any other exception goes to the recovery sleep.
SyncRun ==
    /\ driver.mode = "synchronized"
    /\ driver.pc = "run"
    /\ \E outcome \in {"returned", "raised", "interrupt"}, d \in Elapsed :
          driver' = [driver EXCEPT
              !.runs = @ + 1,
              !.now = @ + d,
              !.skipped = None,
              !.ran_for = driver.execution_time,
              !.errors = IF outcome = "raised" THEN @ + 1 ELSE @,
              !.cause = IF outcome = "interrupt" THEN "interrupt" ELSE @,
              !.pc = IF outcome = "returned" THEN "top"
                     ELSE IF outcome = "raised" THEN "backoff"
                     ELSE "exited"]
    /\ DriverFrame

\* time.sleep(10) in the except branch; the interrupt arriving there leaves
\* run_synchronized.
SyncBackoff ==
    /\ driver.mode = "synchronized"
    /\ driver.pc = "backoff"
    /\ \E interrupted \in BOOLEAN :
          driver' = IF interrupted
                    THEN [driver EXCEPT !.pc = "exited", !.cause = "interrupt"]
                    ELSE [driver EXCEPT !.pc = "top", !.now = @ + 10]
    /\ DriverFrame

\* self.run_once() in run_forever: nothing is caught.
ForeverRun ==
    /\ driver.mode = "forever"
    /\ driver.pc = "run"
    /\ driver.loops < MaxLoops
    /\ \E outcome \in {"returned", "raised", "interrupt"}, d \in Elapsed :
          driver' = [driver EXCEPT
              !.loops = @ + 1,
              !.runs = @ + 1,
              !.now = @ + d,
              !.errors = IF outcome = "raised" THEN @ + 1 ELSE @,
              !.cause = IF outcome = "interrupt" THEN "interrupt"
                        ELSE IF outcome = "raised" THEN "exception" ELSE @,
              !.pc = IF outcome = "returned" THEN "sleep" ELSE "exited"]
    /\ DriverFrame

\* time.sleep(sleep_seconds) in run_forever.
ForeverSleep ==
    /\ driver.mode = "forever"
    /\ driver.pc = "sleep"
    /\ \E interrupted \in BOOLEAN :
          driver' = IF interrupted
                    THEN [driver EXCEPT !.pc = "exited", !.cause = "interrupt"]
                    ELSE [driver EXCEPT !.pc = "run",
                                        !.now = @ + driver.sleep_seconds]
    /\ DriverFrame

InitLoop == EngineBuilt("base") /\ driver \in StartedDrivers

NextLoop ==
    \/ SyncCompute
    \/ SyncSleep
    \/ SyncRun
    \/ SyncBackoff
    \/ ForeverRun
    \/ ForeverSleep

SpecLoop == InitLoop /\ [][NextLoop]_vars

(***************************************************************************)
(* Order executor in isolation: any caller, any broker.                    *)
(* The broker may hold positions of any symbol with or without a magic     *)
(* number, get_open_positions may raise, and send_market_order may accept  *)
(* or reject.                                                              *)
(***************************************************************************)
ExecSymbols == {"EURUSD", "EURUSD_0"}

ExecMagics == {None, 0}

ExecComment(magic_number) ==
    IF magic_number = None THEN NoneStr ELSE "strategy_1-M1"

\* Positions a broker may report (entry_price is the broker's fill price).
ExecPositions ==
    {[symbol |-> s, magic_number |-> m, entry_price |-> 1,
      strategy_name |-> IF m = None THEN "Unknown" ELSE ExecComment(m)] :
        s \in ExecSymbols, m \in ExecMagics}

ExecRequests ==
    {[symbol |-> s, order_type |-> t, magic_number |-> m,
      comment |-> ExecComment(m)] :
        s \in ExecSymbols, t \in {"BUY", "SELL", "CLOSE"}, m \in ExecMagics}

EngineUnchanged ==
    UNCHANGED <<hash_of, strategy_to_magic, magic_to_strategy, trade_history,
                broker_positions, closed_trades, pc, cycle, sym_idx,
                strat_idx, signals, cycle_log, dedup_count, config, driver>>

\* A caller invokes sync_state(); the broker raises or answers with a list.
ExecSync ==
    /\ \E raised \in BOOLEAN, L \in SeqsUpTo(ExecPositions, MaxPositions) :
          LET resp == [raised |-> raised, positions |-> L]
          IN /\ open_positions' = sync_state(open_positions, resp)
             /\ call' = [kind |-> "sync", pre |-> open_positions, resp |-> resp]
    /\ EngineUnchanged

\* A caller invokes execute_order(req); the broker answers with result.
\* An OrderResult carries success and the broker's order id.
ExecExecute ==
    /\ \E req \in ExecRequests, success \in BOOLEAN :
          LET result == [success |-> success,
                         order_id |-> IF success THEN 1 ELSE None]
              done == execute_order(open_positions, req, result)
          IN /\ open_positions' = done.open_positions
             /\ call' = [kind |-> "execute", pre |-> open_positions,
                         req |-> req, result |-> result, returned |-> done.ret]
    /\ EngineUnchanged

InitExec == InitEngine

NextExec ==
    \/ ExecSync
    \/ ExecExecute

SpecExec == InitExec /\ [][NextExec]_vars

(***************************************************************************)
(* Trade history harness: _update_trade_history against any response of    *)
(* get_closed_trades, cycle after cycle, from an empty history.            *)
(***************************************************************************)

\* Closed trades a broker can report: two identities, two results each.
HistTrades ==
    {[symbol |-> "EURUSD", strategy_name |-> "strategy_1",
      entry_time |-> t, exit_time |-> t + 1, pnl |-> pnl] :
        t \in {0, 1}, pnl \in PnlValues}

\* One cycle's self._update_trade_history(): the broker returns any list
\* (repetitions included), declares the endpoint unsupported, or fails.
HistPull ==
    /\ \E outcome \in {"ok", "unsupported", "error"},
          trades \in SeqsUpTo(HistTrades, MaxResponse) :
          LET resp == [outcome |-> outcome, trades |-> trades]
          IN /\ trade_history' = _update_trade_history(trade_history, resp)
             /\ call' = [kind |-> "history", pre |-> trade_history,
                         resp |-> resp]
    /\ RegistryUnchanged /\ BrokerUnchanged
    /\ UNCHANGED <<open_positions, pc, cycle, sym_idx, strat_idx, signals,
                   cycle_log, dedup_count, config, driver>>

InitHist == InitEngine

NextHist == HistPull

SpecHist == InitHist /\ [][NextHist]_vars

(***************************************************************************)
(* Registry harness: a StrategyRegistry of its own, empty at first, and    *)
(* register_strategy called with any names in any order.                   *)
(***************************************************************************)

RegNames == {"strategy_1", "strategy_2", "strategy_3"}

\* Hash candidates, chosen so that names can collide, at the top of the
\* range too, where the increment wraps to 0.
RegHashValues == {0, MagicMax - 1, MagicMax}

\* StrategyRegistry.__init__ leaves both maps empty.
InitReg ==
    /\ hash_of \in [RegNames -> RegHashValues]
    /\ strategy_to_magic = EmptyRegistry.s2m
    /\ magic_to_strategy = EmptyRegistry.m2s
    /\ open_positions = EmptyMirror
    /\ trade_history = <<>>
    /\ broker_positions = {}
    /\ closed_trades = <<>>
    /\ pc = "idle"
    /\ cycle = 0
    /\ sym_idx = 0
    /\ strat_idx = 0
    /\ signals = <<>>
    /\ cycle_log = EmptyLog
    /\ dedup_count = [p \in StrategyNames \X SymbolNames |-> 0]
    /\ call = NoCall
    /\ config = "base"
    /\ driver = NoDriver

\* A caller invokes register_strategy(strategy_name).
RegRegister ==
    /\ \E strategy_name \in RegNames :
          LET reg == register_strategy(
                         [s2m |-> strategy_to_magic, m2s |-> magic_to_strategy],
                         hash_of, strategy_name)
          IN /\ strategy_to_magic' = reg.s2m
             /\ magic_to_strategy' = reg.m2s
             /\ call' = [kind |-> "register", strategy_name |-> strategy_name,
                         pre |-> strategy_to_magic, returned |-> reg.ret]
    /\ BrokerUnchanged
    /\ UNCHANGED <<hash_of, open_positions, trade_history, pc, cycle, sym_idx,
                   strat_idx, signals, cycle_log, dedup_count, config, driver>>

NextReg == RegRegister

SpecReg == InitReg /\ [][NextReg]_vars

(***************************************************************************)
(* Risk harness: the RiskManager applied to a list of closed trades that   *)
(* grows one trade at a time.                                              *)
(***************************************************************************)

\* Results of closed trades: the gains and losses of the test scenarios
\* and the losses that land on the limits (50 and 20 percent of 100).
RiskPnl == {1000, -600, -300, -50, -20}

RiskTrades ==
    {[symbol |-> symbol, strategy_name |-> strategy_name, entry_time |-> 0,
      exit_time |-> 1, pnl |-> pnl] :
        symbol \in SymbolNames, strategy_name \in StrategyNames,
        pnl \in RiskPnl}

\* A trade closes; the three checks are evaluated on the longer list.
RiskEvaluate ==
    /\ Len(trade_history) < MaxRiskTrades
    /\ \E trade \in RiskTrades :
          LET trades == Append(trade_history, trade)
          IN /\ trade_history' = trades
             /\ call' = [kind |-> "risk", pre |-> trade_history,
                         drawdown |-> _calculate_drawdown(trades),
                         bot |-> check_bot_risk_limits(trades),
                         symbol |-> [x \in SymbolNames |->
                                       check_symbol_risk_limits(x, trades)],
                         strategy |-> [x \in StrategyNames |->
                                       check_strategy_risk_limits(x, trades)]]
    /\ RegistryUnchanged /\ BrokerUnchanged
    /\ UNCHANGED <<open_positions, pc, cycle, sym_idx, strat_idx, signals,
                   cycle_log, dedup_count, config, driver>>

InitRisk == \E c \in {"base", "unlimited"} : InitConfigured(c)

NextRisk == RiskEvaluate

SpecRisk == InitRisk /\ [][NextRisk]_vars

(***************************************************************************)
(* Data service harness: get_resampled_data for any base timeframe, any    *)
(* targets and any answer of get_ohlcv.                                    *)
(***************************************************************************)

\* The timeframes of the engine's order, and one of the broker's that the
\* data service does not know.
DataTimeframes == {"M1", "M5", "M15", "M30", "H1", "H4", "D1", "W1"}

\* Minutes of one bar of the base series.
bar_minutes == [M1 |-> 1, M5 |-> 5, M15 |-> 15, M30 |-> 30, H1 |-> 60,
                H4 |-> 240, D1 |-> 1440, W1 |-> 10080]

\* Positions of the bars of a series, in bars since midnight: with gaps,
\* so that some bins of a coarser timeframe stay empty.
DataSlots == {0, 1, 4, 5, 9}

DataShapes == {[open |-> 1, high |-> 3, low |-> 0, close |-> 2, volume |-> 1],
               [open |-> 2, high |-> 5, low |-> 1, close |-> 4, volume |-> 2]}

bar(t, shape) ==
    [t |-> t, open |-> shape.open, high |-> shape.high, low |-> shape.low,
     close |-> shape.close, volume |-> shape.volume]

\* Series of at most MaxBars bars at the slots, ordered by time.
GapSeries(minutes) ==
    UNION {{[k \in 1..Cardinality(slots) |->
                bar(sorted(slots)[k] * minutes, shape[sorted(slots)[k]])] :
              shape \in [slots -> DataShapes]} :
           slots \in {x \in SUBSET DataSlots : Cardinality(x) <= MaxBars}}

\* FakeBroker.get_ohlcv of the tests: ten consecutive bars, open, high,
\* low and close 0..9, volume 1.
SequentialSeries(minutes) ==
    [k \in 1..10 |-> [t |-> (k - 1) * minutes, open |-> k - 1,
                      high |-> k - 1, low |-> k - 1, close |-> k - 1,
                      volume |-> 1]]

\* A call of get_resampled_data is pending: a base timeframe, up to
\* MaxTargets targets, what get_ohlcv does and the targets whose resample
\* raises.
DataCalled ==
    \E min_timeframe \in DataTimeframes,
       target_timeframes \in {x \in SUBSET DataTimeframes :
                                 Cardinality(x) <= MaxTargets},
       raised \in BOOLEAN :
       \E bars \in IF raised THEN {<<>>}
                    ELSE GapSeries(bar_minutes[min_timeframe])
                           \cup {SequentialSeries(bar_minutes[min_timeframe])},
          failing \in SUBSET (target_timeframes \ {min_timeframe}) :
          call = [kind |-> "request",
                  symbol |-> [name |-> "EURUSD",
                              min_timeframe |-> min_timeframe],
                  target_timeframes |-> target_timeframes,
                  resp |-> [raised |-> raised, bars |-> bars],
                  failing |-> failing]

\* get_resampled_data(symbol, target_timeframes, start, end) runs.
DataRequest ==
    /\ call.kind = "request"
    /\ LET got == get_resampled_data(call.symbol, call.target_timeframes,
                                     call.resp, call.failing)
       IN call' = [kind |-> "data", symbol |-> call.symbol,
                   target_timeframes |-> call.target_timeframes,
                   resp |-> call.resp, failing |-> call.failing,
                   outcome |-> got.outcome, data |-> got.data]
    /\ EngineUnchanged
    /\ UNCHANGED open_positions

InitData ==
    /\ DataCalled
    /\ config = "base"
    /\ driver = NoDriver
    /\ hash_of \in [StrategyNames -> HashValues]
    /\ LET reg == post_init(EmptyRegistry, hash_of, 1)
       IN /\ strategy_to_magic = reg.s2m
          /\ magic_to_strategy = reg.m2s
    /\ open_positions = EmptyMirror
    /\ trade_history = <<>>
    /\ broker_positions = {}
    /\ closed_trades = <<>>
    /\ pc = "idle"
    /\ cycle = 0
    /\ sym_idx = 0
    /\ strat_idx = 0
    /\ signals = <<>>
    /\ cycle_log = EmptyLog
    /\ dedup_count = [p \in StrategyNames \X SymbolNames |-> 0]

NextData == DataRequest

SpecData == InitData /\ [][NextData]_vars

(***************************************************************************)
(* Harnesses of the pure computations: the engine is built and idle, the   *)
(* arguments of one call are drawn, the call runs.                         *)
(***************************************************************************)

\* The engine built with the base configuration, call left open.
BuiltIdle ==
    /\ config = "base"
    /\ driver = NoDriver
    /\ hash_of \in [StrategyNames -> HashValues]
    /\ LET reg == post_init(EmptyRegistry, hash_of, 1)
       IN /\ strategy_to_magic = reg.s2m
          /\ magic_to_strategy = reg.m2s
    /\ open_positions = EmptyMirror
    /\ trade_history = <<>>
    /\ broker_positions = {}
    /\ closed_trades = <<>>
    /\ pc = "idle"
    /\ cycle = 0
    /\ sym_idx = 0
    /\ strat_idx = 0
    /\ signals = <<>>
    /\ cycle_log = EmptyLog
    /\ dedup_count = [p \in StrategyNames \X SymbolNames |-> 0]

\* Sequences over S without repetition, of length 1..n: the orders in
\* which a set of at most n elements can be iterated.
Orders(S, n) ==
    {q \in SeqsUpTo(S, n) :
        /\ q # <<>>
        /\ \A i, j \in DOMAIN q : i # j => q[i] # q[j]}

\* current_time of run_once, in minutes.
NowValues == {0, 1000000}

\* run_once computes the window of a request and its start and end.
WindowCompute ==
    /\ call.kind = "window_request"
    /\ LET data_window == _calculate_data_window(call.order)
       IN call' = [kind |-> "window", order |-> call.order, now |-> call.now,
                   data_window |-> data_window,
                   start |-> call.now - data_window, end |-> call.now]
    /\ EngineUnchanged
    /\ UNCHANGED open_positions

InitWindow ==
    /\ BuiltIdle
    /\ \E order \in Orders(DataTimeframes, MaxWindowTimeframes),
          now \in NowValues :
          call = [kind |-> "window_request", order |-> order, now |-> now]

NextWindow == WindowCompute

SpecWindow == InitWindow /\ [][NextWindow]_vars

(***************************************************************************)
(* The executor wired to MetaTrader5Client: BUY orders of the registered   *)
(* strategies and sync_state against the terminal.  broker_positions holds *)
(* the positions of the terminal, [ticket, symbol, magic, comment].        *)
(***************************************************************************)

\* The request send_market_order builds: "magic": magic_number or 0,
\* "comment": comment or "".  The terminal opens the position it describes.
mt5_order_send(positions, order_request) ==
    positions \cup
        {[ticket |-> Cardinality(positions) + 1,
          symbol |-> order_request.symbol,
          magic |-> IF order_request.magic_number \in {None, 0}
                    THEN 0 ELSE order_request.magic_number,
          comment |-> IF order_request.comment = NoneStr
                      THEN "" ELSE order_request.comment]}

\* for pos in positions: Position(...), in ticket order.
RECURSIVE to_positions(_, _)
to_positions(positions, ticket) ==
    IF ticket > Cardinality(positions) THEN <<>>
    ELSE LET pos == CHOOSE q \in positions : q.ticket = ticket
         IN <<[symbol |-> pos.symbol,
               magic_number |-> IF pos.magic # 0 THEN pos.magic ELSE None,
               entry_price |-> 1,
               strategy_name |-> IF pos.comment # "" THEN pos.comment
                                 ELSE "Unknown"]>>
            \o to_positions(positions, ticket + 1)

\* MetaTrader5Client.get_open_positions as sync_state sees it: outcome is
\* "disconnected" (_ensure_connected raises), "none" (positions_get
\* returned None) or "ok".
mt5_get_open_positions(positions, outcome) ==
    [raised |-> (outcome = "disconnected"),
     positions |-> IF outcome = "ok" THEN to_positions(positions, 1)
                   ELSE <<>>]

\* A strategy's BUY signal for a symbol goes through the duplicate check
\* and execute_order; the terminal fills it or rejects it.
TerminalOpen ==
    /\ Cardinality(broker_positions) < MaxTerminalPositions
    /\ \E symbol \in SymbolNames, strategy_name \in StrategyNames,
          success \in BOOLEAN :
          LET magic_number == get_magic_number(strategy_to_magic,
                                               strategy_name)
              order_request ==
                  order_of([strategy_name |-> strategy_name,
                            symbol |-> symbol, timeframe |-> "M5",
                            signal_type |-> "BUY"], magic_number)
          IN /\ ~has_open_position(open_positions, symbol, strategy_name,
                                   magic_number)
             /\ open_positions' =
                   execute_order(open_positions, order_request,
                                 [success |-> success]).open_positions
             /\ broker_positions' =
                   IF success
                   THEN mt5_order_send(broker_positions, order_request)
                   ELSE broker_positions
             /\ call' = [kind |-> "open", symbol |-> symbol,
                         magic_number |-> magic_number,
                         success |-> success,
                         held |-> {q \in broker_positions :
                                     /\ q.symbol = symbol
                                     /\ q.magic = magic_number}]
    /\ RegistryUnchanged
    /\ UNCHANGED <<closed_trades, trade_history, pc, cycle, sym_idx,
                   strat_idx, signals, cycle_log, dedup_count, config,
                   driver>>

\* self.order_executor.sync_state() against the terminal.
TerminalSync ==
    /\ \E outcome \in {"ok", "none", "disconnected"} :
          /\ open_positions' =
                sync_state(open_positions,
                           mt5_get_open_positions(broker_positions, outcome))
          /\ call' = [kind |-> "sync", outcome |-> outcome,
                      pre |-> open_positions]
    /\ RegistryUnchanged /\ BrokerUnchanged
    /\ UNCHANGED <<trade_history, pc, cycle, sym_idx, strat_idx, signals,
                   cycle_log, dedup_count, config, driver>>

InitTerminal == BuiltIdle /\ call = NoCall

NextTerminal ==
    \/ TerminalOpen
    \/ TerminalSync

SpecTerminal == InitTerminal /\ [][NextTerminal]_vars

(***************************************************************************)
(* Properties of the cycle engine                                          *)
(***************************************************************************)

\* C1. Deduplication across cycles: as long as strategy S emits no CLOSE
\* for symbol X and the broker keeps reporting the position it opened, at
\* most one BUY/SELL order for (S, X) is accepted by the broker, whether the
\* repeated signal comes in a later cycle (sync_state rebuilt the mirror) or
\* in the same cycle (the local mirror holds the entry). dedup_count[S, X]
\* counts the accepted BUY/SELL orders of S on X since S's last CLOSE for X.
C1_DedupAcrossCycles ==
    \A p \in StrategyNames \X SymbolNames : dedup_count[p] <= 1

\* A second cycle in which a BUY/SELL of a strategy that already holds the
\* position (opened in an earlier cycle, mirrored from the broker with its
\* fill price) is about to be skipped.
C1_Witness ==
    /\ cycle = 2
    /\ pc = "signal"
    /\ signals # <<>>
    /\ Head(signals).signal_type \in {"BUY", "SELL"}
    /\ cycle_log.sent = {}
    /\ dedup_count[<<cur_strategy.name, Head(signals).symbol>>] = 1
    /\ has_open_position(open_positions, Head(signals).symbol,
                         cur_strategy.name, cur_magic)
    /\ open_positions[_generate_position_key(Head(signals).symbol,
                                             cur_magic)].entry_price = 1

\* C2. Gate soundness: in a cycle whose refreshed history fails
\* check_bot_risk_limits, no order is sent and no market data is fetched.
C2_GateSoundness ==
    (cycle_log.pulled /\ ~check_bot_risk_limits(trade_history))
        => (cycle_log.sent = {} /\ cycle_log.n_sent = 0
            /\ cycle_log.fetched = {})

\* A second cycle that returned at the global gate, after a first cycle
\* that opened a position.
C2_Witness ==
    /\ cycle = 2
    /\ pc = "returned"
    /\ cycle_log.bot_checked
    /\ ~check_bot_risk_limits(trade_history)
    /\ broker_positions # {}

\* C3. Per-symbol gate isolates: in a cycle where
\* check_symbol_risk_limits(X, history) is false, no order whose symbol is X
\* is sent to the broker, whatever the strategies return while other
\* symbols are processed.
C3_SymbolGateIsolates ==
    \A X \in SymbolNames :
        (cycle_log.pulled /\ ~check_symbol_risk_limits(X, trade_history))
            => \A o \in cycle_log.sent : o[1] # X

\* C4. Per-strategy gate: in a cycle where check_strategy_risk_limits(S) is
\* false, generate_signals of S is not invoked and no order carries S's
\* magic number, while every strategy that is not blocked has been invoked
\* for every symbol whose data was fetched and whose strategy loop has
\* finished.
C4_StrategyGate ==
    \A i \in DOMAIN strategies :
        (cycle_log.pulled
         /\ ~check_strategy_risk_limits(strategies[i].name, trade_history))
            => /\ \A X \in SymbolNames :
                    <<strategies[i].name, X>> \notin cycle_log.generated
               /\ \A o \in cycle_log.sent :
                    o[2] # get_magic_number(strategy_to_magic, strategies[i].name)
               /\ \A j \in DOMAIN strategies, k \in DOMAIN symbols :
                    (/\ check_strategy_risk_limits(strategies[j].name,
                                                   trade_history)
                     /\ symbols[k].name \in cycle_log.fetched
                     /\ k < sym_idx)
                        => <<strategies[j].name, symbols[k].name>>
                              \in cycle_log.generated

\* A finished cycle in which strategy_1 was blocked, both symbols were
\* fetched and strategy_2 was invoked and sent an order.
C4_Witness ==
    /\ pc = "returned"
    /\ cycle_log.pulled
    /\ ~check_strategy_risk_limits("strategy_1", trade_history)
    /\ cycle_log.fetched = SymbolNames
    /\ <<"strategy_2", "GBPUSD">> \in cycle_log.generated
    /\ \E o \in cycle_log.sent :
          o[2] = get_magic_number(strategy_to_magic, "strategy_2")

\* C34. Risk gates latch: a gate that was false on the history of an earlier
\* cycle is false on the current history, and the current cycle has sent no
\* order at all (bot gate), no order whose symbol is the blocked symbol
\* (symbol gate), no order carrying the blocked strategy's magic number
\* (strategy gate).
C34_RiskGatesLatch ==
    /\ cycle_log.blocked.bot
          => /\ ~check_bot_risk_limits(trade_history)
             /\ cycle_log.n_sent = 0
    /\ \A X \in cycle_log.blocked.symbols :
          /\ ~check_symbol_risk_limits(X, trade_history)
          /\ \A o \in cycle_log.sent : o[1] # X
    /\ \A S \in cycle_log.blocked.strategies :
          /\ ~check_strategy_risk_limits(S, trade_history)
          /\ \A o \in cycle_log.sent :
                o[2] # get_magic_number(strategy_to_magic, S)

\* C5. Distinct strategies on the same symbol: when, in a cycle that
\* started with no open positions, strategy_1 and strategy_2 each emit one
\* BUY for the same symbol X (and nothing else), exactly two orders are
\* sent, one per strategy, with two different magic numbers.
C5_TwoStrategiesSameSymbol ==
    \A X \in SymbolNames :
        (/\ pc = "returned"
         /\ cycle_log.mirror_empty
         /\ cycle_log.emitted = {<<"strategy_1", X>>, <<"strategy_2", X>>})
            => /\ cycle_log.n_sent = 2
               /\ cycle_log.sent =
                     {<<X, get_magic_number(strategy_to_magic, "strategy_1")>>,
                      <<X, get_magic_number(strategy_to_magic, "strategy_2")>>}
               /\ get_magic_number(strategy_to_magic, "strategy_1")
                     # get_magic_number(strategy_to_magic, "strategy_2")

\* Both strategies emitted a BUY for GBPUSD, both orders were accepted and
\* the mirror holds the two positions under two keys.
C5_Witness ==
    /\ pc = "returned"
    /\ cycle_log.mirror_empty
    /\ cycle_log.emitted = {<<"strategy_1", "GBPUSD">>, <<"strategy_2", "GBPUSD">>}
    /\ cycle_log.n_sent = 2
    /\ Cardinality({k \in DOMAIN open_positions :
                       open_positions[k].symbol = "GBPUSD"}) = 2

C11_TransportFailurePerSymbol ==
    pc # "raised"

\* The data request of the k-th symbol was made in this cycle and failed:
\* the symbol passed its risk check with a non-empty set of compatible
\* timeframes, the request is no longer pending and no data was recorded.
fetch_failed(k) ==
    /\ symbols[k].name \in cycle_log.sym_checked
    /\ check_symbol_risk_limits(symbols[k].name, trade_history)
    /\ compatible_timeframes(required_timeframes(symbols[k]),
                             symbols[k].min_timeframe) # {}
    /\ symbols[k].name \notin cycle_log.fetched
    /\ ~(pc = "fetch" /\ sym_idx = k)

\* C12. Data-fetch failure is per-symbol: when get_resampled_data fails for
\* a symbol (broker error or unsupported timeframe) the engine moves on to
\* the next symbol, no strategy is invoked and no order is sent in that
\* symbol's iteration, and a cycle that returns has still checked every
\* later configured symbol.
C12_FetchFailurePerSymbol ==
    \A k \in DOMAIN symbols :
        fetch_failed(k)
            => /\ sym_idx > k
               /\ \A i \in DOMAIN strategies :
                     <<strategies[i].name, symbols[k].name>>
                        \notin cycle_log.generated
               /\ cycle_log.last # NoOrder => sym_idx # k
               /\ pc = "returned"
                     => \A j \in DOMAIN symbols :
                           j > k => symbols[j].name \in cycle_log.sym_checked

\* The request for EURUSD failed on the unsupported M30 timeframe and the
\* cycle went on to fetch GBPUSD and to send an order.
C12_Witness ==
    /\ config = "m30"
    /\ pc = "returned"
    /\ fetch_failed(1)
    /\ "GBPUSD" \in cycle_log.fetched
    /\ cycle_log.n_sent > 0

\* C19. Optional closed-trade endpoint: when get_closed_trades signals
\* unsupported (NotImplementedError) or raises any other exception,
\* trade_history is left unchanged and the cycle goes on to the risk gate
\* and the symbols, in the state an empty answer of the broker would have
\* produced.
C19_ClosedTradesOptional ==
    cycle_log.pull.outcome \in {"unsupported", "error"} =>
        /\ trade_history = cycle_log.pull.pre
        /\ trade_history = _update_trade_history(cycle_log.pull.pre,
                               [outcome |-> "ok", trades |-> <<>>])
        /\ pc = "bot_risk"

\* get_closed_trades raised while the broker held a closed trade the
\* history lacks: nothing was recorded and the global check is next.
C19_Witness ==
    /\ cycle_log.pull.outcome = "error"
    /\ closed_trades # <<>>
    /\ trade_history = <<>>
    /\ pc = "bot_risk"

\* A signal of the current strategy is about to be processed.
signal_pending == pc = "signal" /\ signals # <<>>

\* The step hands an order to send_market_order.
order_sent == cycle_log'.n_sent = cycle_log.n_sent + 1

\* The step sends a CLOSE order.
close_sent == order_sent /\ cycle_log'.last.order_type = "CLOSE"

\* The order sent carries the current strategy's magic number and the
\* mirror holds a position at its key.
close_sent_for_open_key ==
    /\ cycle_log'.last.magic_number = cur_magic
    /\ _generate_position_key(cycle_log'.last.symbol, cur_magic)
          \in DOMAIN open_positions

\* A CLOSE signal is next and the mirror has no position at its key.
close_without_position ==
    /\ signal_pending
    /\ Head(signals).signal_type = "CLOSE"
    /\ _generate_position_key(Head(signals).symbol, cur_magic)
          \notin DOMAIN open_positions

\* The signal is dropped: no order, mirror and broker untouched.
signal_skipped ==
    /\ ~order_sent
    /\ UNCHANGED <<open_positions, broker_positions>>
    /\ signals' = Tail(signals)

key_absent_after ==
    _generate_position_key(cycle_log'.last.symbol, cur_magic)
       \notin DOMAIN open_positions'

\* A BUY/SELL signal is next for a key closed earlier in the cycle and
\* absent from the mirror.
open_after_close ==
    /\ signal_pending
    /\ Head(signals).signal_type \in {"BUY", "SELL"}
    /\ <<Head(signals).symbol, cur_magic>> \in cycle_log.closed
    /\ _generate_position_key(Head(signals).symbol, cur_magic)
          \notin DOMAIN open_positions

\* The signal's order is handed to the broker.
signal_dispatched ==
    /\ order_sent
    /\ cycle_log'.last.symbol = Head(signals).symbol
    /\ cycle_log'.last.magic_number = cur_magic
    /\ cycle_log'.last.order_type = Head(signals).signal_type

\* C28. CLOSE signals: the engine sends a CLOSE order for strategy S and
\* symbol X only if the mirror holds a position at key (X, magic(S)) at
\* that moment; otherwise the signal is skipped with no broker call. After
\* an accepted CLOSE the key is absent, so a later BUY/SELL from S for X
\* is dispatched again.
C28_CloseSignals ==
    [][/\ close_sent => close_sent_for_open_key
       /\ close_without_position => signal_skipped
       /\ (close_sent /\ cycle_log'.last.outcome = "accept") => key_absent_after
       /\ open_after_close => signal_dispatched]_vars

\* A strategy closed its position in a symbol and, later in the same cycle,
\* its BUY for that symbol was sent and accepted.
C28_Witness ==
    /\ cycle_log.last.order_type = "BUY"
    /\ cycle_log.last.outcome = "accept"
    /\ <<cycle_log.last.symbol, cycle_log.last.magic_number>>
          \in cycle_log.closed

\* The order of the step is of a kind the broker executes and carries the
\* registry's magic number of the strategy being processed.
order_attributed ==
    /\ cycle_log'.last.order_type \in {"BUY", "SELL", "CLOSE"}
    /\ cycle_log'.last.order_type = Head(signals).signal_type
    /\ cycle_log'.last.magic_number # None
    /\ cycle_log'.last.magic_number
          = get_magic_number(strategy_to_magic, cur_strategy.name)
    /\ get_strategy_name(magic_to_strategy, cycle_log'.last.magic_number)
          = cur_strategy.name

\* The duplicate check was made with the magic number the order carries.
checked_with_same_magic ==
    has_open_position(open_positions, cycle_log'.last.symbol,
                      cur_strategy.name, cycle_log'.last.magic_number)
      <=> (cycle_log'.last.order_type = "CLOSE")

\* C29. Order attribution: every order the engine sends has order type
\* BUY, SELL or CLOSE (HOLD and unknown kinds never reach the broker),
\* carries a non-null magic_number equal to the registry's magic number of
\* the strategy whose generate_signals produced the signal, and that same
\* magic number is the one used for the duplicate check.
C29_OrderAttribution ==
    [][/\ order_sent => (signal_pending /\ order_attributed
                           /\ checked_with_same_magic)
       /\ (signal_pending
             /\ Head(signals).signal_type \notin {"BUY", "SELL", "CLOSE"})
            => (~order_sent /\ UNCHANGED <<open_positions, broker_positions>>)
      ]_vars

\* strategy_2, whose hash candidate collided and was moved on to 0, sent a
\* SELL carrying the magic number 0.
C29_Witness ==
    /\ pc = "signal"
    /\ cur_strategy.name = "strategy_2"
    /\ cycle_log.last.order_type = "SELL"
    /\ cycle_log.last.magic_number = 0
    /\ get_magic_number(strategy_to_magic, "strategy_2") = 0

\* The timeframes of the strategies eligible for the symbol, without the
\* ones finer than the symbol's base.
eligible_timeframes(symbol) ==
    {tf \in UNION {{strategies[i].timeframes[j] :
                       j \in DOMAIN strategies[i].timeframes} :
                    i \in {k \in DOMAIN strategies :
                             \/ strategies[k].allowed_symbols = NoRestriction
                             \/ symbol.name \in strategies[k].allowed_symbols}} :
        bar_minutes[tf] >= bar_minutes[symbol.min_timeframe]}

\* The log agrees with the filter for one symbol.
filter_respected(symbol) ==
    LET eligible == eligible_timeframes(symbol)
    IN /\ \A r \in cycle_log.requested :
             r[1] = symbol.name => r[2] = eligible
       /\ symbol.name \in cycle_log.fetched =>
             <<symbol.name, eligible>> \in cycle_log.requested
       /\ eligible = {} =>
             /\ \A r \in cycle_log.requested : r[1] # symbol.name
             /\ symbol.name \notin cycle_log.fetched
             /\ \A n \in StrategyNames :
                   <<n, symbol.name>> \notin cycle_log.generated
             /\ (pc \in {"fetch", "strategy", "signal"}
                   => cur_symbol.name # symbol.name)

\* C30. Timeframe eligibility filter: for each symbol the fetched timeframe
\* set is the union of the timeframes of the strategies eligible for the
\* symbol (no allowed_symbols restriction, or the symbol in it), minus
\* every timeframe finer than symbol.min_timeframe; when that set is empty
\* the symbol is skipped with no data fetch, no generate_signals call and
\* no order.
C30_EligibilityFilter ==
    /\ \A i \in DOMAIN symbols : filter_respected(symbols[i])
    /\ cycle_log.n_sent > 0 =>
          \E i \in DOMAIN symbols : eligible_timeframes(symbols[i]) # {}

\* Under "finer" a cycle ended after both symbols passed their risk check
\* and none was fetched: GBPUSD has no eligible strategy, EURUSD only
\* timeframes finer than its base.
C30_Witness ==
    /\ config = "finer"
    /\ pc = "returned"
    /\ cycle_log.sym_checked = SymbolNames
    /\ cycle_log.requested = {}
    /\ cycle_log.generated = {}

\* C39. Orders respect allowed_symbols: generate_signals of a strategy is
\* invoked only while a symbol of its allowed_symbols is processed (or the
\* strategy has no restriction), and a BUY/SELL order handed to the broker
\* with a strategy's magic number is for a symbol that strategy may
\* operate.
C39_OrdersRespectAllowedSymbols ==
    \A i \in DOMAIN strategies :
        /\ \A X \in SymbolNames :
              <<strategies[i].name, X>> \in cycle_log.generated
                  => can_operate(strategies[i], X)
        /\ (/\ cycle_log.last.order_type \in {"BUY", "SELL"}
            /\ cycle_log.last.magic_number
                  = get_magic_number(strategy_to_magic, strategies[i].name))
              => can_operate(strategies[i], cycle_log.last.symbol)

(***************************************************************************)
(* Properties of the loop drivers                                          *)
(***************************************************************************)

\* C13. The candle-aligned loop never terminates because of a per-cycle
\* error: the loop exits only on the interrupt; an exception of run_once
\* takes the loop to the recovery sleep, after which (10 s later) it is
\* back at the top of the loop, where it computes a new boundary.
C13_AlignedLoopSurvives ==
    [][driver.mode = "synchronized"
         => /\ (driver'.pc = "exited" /\ driver.pc # "exited")
                  => driver'.cause = "interrupt"
            /\ driver'.errors > driver.errors => driver'.pc = "backoff"
            /\ (driver.pc = "backoff" /\ driver'.pc # "exited")
                  => (driver'.pc = "top" /\ driver'.now = driver.now + 10)
       ]_vars

\* After an exception of run_once the loop has computed a new execution
\* instant, at least 10 s later, and is invoking run_once again.
C13_Witness ==
    /\ driver.mode = "synchronized"
    /\ driver.pc = "run"
    /\ driver.errors = 1
    /\ driver.runs = 1
    /\ driver.now = driver.execution_time

\* C14. The fixed-interval loop survives per-cycle errors: an exception of
\* run_once other than the interrupt does not escape run_forever.
C14_FixedLoopSurvives ==
    ~(driver.mode = "forever" /\ driver.pc = "exited"
      /\ driver.cause = "exception")

\* The least multiple of timeframe_minutes (counted from midnight) after
\* the zero-second mark of t.
boundary_after(timeframe_minutes, t) ==
    ((floor_minute(t) \div (60 * timeframe_minutes)) + 1)
        * (60 * timeframe_minutes)

\* The least such multiple at or after the zero-second mark of t.
boundary_at_or_after(timeframe_minutes, t) ==
    IF floor_minute(t) % (60 * timeframe_minutes) = 0
    THEN floor_minute(t)
    ELSE boundary_after(timeframe_minutes, t)

\* C15. Candle alignment: the execution instant is B + wait_after_close,
\* where B is the next boundary that is a multiple of timeframe_minutes
\* past the zero-second mark of the clock reading, computed by the same
\* rule in every branch ("past" read as after, or read as at-or-after).
C15_CandleAlignment ==
    (driver.mode = "synchronized" /\ driver.computed_at # None)
        => /\ driver.execution_time
                 = next_close(driver.timeframe_minutes, driver.computed_at)
                     + driver.wait_after_close
           /\ \/ \A tf \in Timeframes :
                    next_close(tf, driver.computed_at)
                       = boundary_after(tf, driver.computed_at)
              \/ \A tf \in Timeframes :
                    next_close(tf, driver.computed_at)
                       = boundary_at_or_after(tf, driver.computed_at)

C33_OneCyclePerCandle ==
    (driver.mode = "synchronized" /\ driver.pc = "run") =>
        driver.execution_time # driver.ran_for

(***************************************************************************)
(* The mirror against the broker                                           *)
(***************************************************************************)

\* The broker holds an open position with symbol X and magic number m.
broker_holds(X, m) ==
    \E q \in broker_positions : q.symbol = X /\ q.magic_number = m

assigned_magics == {strategy_to_magic[n] : n \in DOMAIN strategy_to_magic}

\* has_open_position on mirror op answers what the broker holds.
mirror_agrees(op) ==
    \A X \in SymbolNames, m \in assigned_magics :
        has_open_position(op, X, NoneStr, m) <=> broker_holds(X, m)

\* C36. Mirror tracks the broker: between two cycles (run_once returned or
\* raised), has_open_position(X, magic=m) is true exactly when the broker
\* holds an open position with symbol X and magic m; the next sync_state,
\* whether get_open_positions answers or raises, leaves that answer as it
\* is.
C36_MirrorTracksBroker ==
    /\ pc \in {"idle", "returned", "raised"} =>
          /\ mirror_agrees(open_positions)
          /\ \A raised \in BOOLEAN :
                mirror_agrees(sync_state(open_positions,
                    [raised |-> raised,
                     positions |-> get_open_positions(broker_positions)]))
    /\ (pc = "history" /\ cycle_log.synced) => mirror_agrees(open_positions)

\* The second cycle is over; in it the broker accepted a CLOSE, and a
\* position of another key is still open.
C36_Witness ==
    /\ cycle = 2
    /\ pc = "returned"
    /\ cycle_log.closed # {}
    /\ broker_positions # {}

\* C37. Magic number round trip through the MetaTrader client: after a
\* sync_state the terminal answered, every position the terminal holds,
\* opened with magic number m (0 included), is found by
\* has_open_position(symbol, name, m).
C37_MagicRoundTrip ==
    (call.kind = "sync" /\ call.outcome = "ok") =>
        \A q \in broker_positions :
            has_open_position(open_positions, q.symbol, NoneStr, q.magic)

\* C38. Outage does not empty the mirror: after a sync_state during which
\* positions_get returned None, open_positions still holds every position
\* it held before.
C38_OutageKeepsMirror ==
    (call.kind = "sync" /\ call.outcome = "none") =>
        \A k \in DOMAIN call.pre :
            k \in DOMAIN open_positions /\ open_positions[k] = call.pre[k]

(***************************************************************************)
(* Properties of the trade history                                         *)
(***************************************************************************)

IsPrefix(p, q) == Len(p) <= Len(q) /\ SubSeq(q, 1, Len(p)) = p

\* C17. Trade-history deduplication: from an empty history, after any
\* sequence of cycles and any lists returned by get_closed_trades (a
\* response holding the same trade twice included), trade_history never
\* holds two records with the same (entry_time, exit_time, symbol,
\* strategy_name).
C17_HistoryNoDuplicates ==
    \A i, j \in DOMAIN trade_history :
        i # j => trade_key(trade_history[i]) # trade_key(trade_history[j])

\* C18. Trade history is append-only: the history before a cycle's update
\* is a prefix of the history after it; no step removes, reorders or
\* rewrites a record, whatever the broker returns (shorter list, empty
\* list, error).
C18_HistoryAppendOnly == [][IsPrefix(trade_history, trade_history')]_vars

\* A history of two records met a one-record response holding a trade
\* not yet recorded: the history is the old one followed by that trade.
C18_Witness ==
    /\ call.kind = "history"
    /\ Len(call.pre) = 2
    /\ call.resp.outcome = "ok"
    /\ Len(call.resp.trades) = 1
    /\ trade_history = Append(call.pre, call.resp.trades[1])

\* C35. Chronological input to the risk evaluator: after every
\* _update_trade_history, whatever the order of the list get_closed_trades
\* returned and over any number of cycles, trade_history is ordered by
\* exit_time ascending.
C35_HistoryChronological ==
    \A i, j \in DOMAIN trade_history :
        i < j => trade_history[i].exit_time <= trade_history[j].exit_time

(***************************************************************************)
(* Properties of the data service                                          *)
(***************************************************************************)

\* C25. Timeframe validation: get_resampled_data fails with the
\* unsupported-timeframe error if and only if the base timeframe or some
\* target timeframe is outside {M1, M5, M15, M30, H1, H4, D1}; every
\* timeframe of that set, M30 included, is accepted as base and as target.
C25_TimeframeValidation ==
    call.kind = "data" =>
        (call.outcome = "ValueError" <=>
            \E tf \in call.target_timeframes \cup {call.symbol.min_timeframe} :
                tf \notin {"M1", "M5", "M15", "M30", "H1", "H4", "D1"})

\* C26. A target timeframe strictly finer than symbol.min_timeframe never
\* is a key of the map get_resampled_data returns; the keys are among the
\* timeframes greater than or equal to the base.
C26_NoFinerKey ==
    (call.kind = "data" /\ call.outcome = "ok") =>
        \A tf \in DOMAIN call.data :
            bar_minutes[tf] >= bar_minutes[call.symbol.min_timeframe]

RECURSIVE total_volume(_, _)
total_volume(raw, members) ==
    IF members = {} THEN 0
    ELSE LET i == CHOOSE x \in members : TRUE
         IN raw[i].volume + total_volume(raw, members \ {i})

\* out is raw aggregated into bins of width minutes.
aggregates(out, raw, minutes) ==
    /\ \A k \in DOMAIN out :
          LET members == {i \in DOMAIN raw :
                            /\ out[k].t <= raw[i].t
                            /\ raw[i].t < out[k].t + minutes}
          IN /\ out[k].t % minutes = 0
             /\ members # {}
             /\ \E i \in members :
                   /\ \A j \in members : i <= j
                   /\ out[k].open = raw[i].open
             /\ \E i \in members :
                   /\ \A j \in members : j <= i
                   /\ out[k].close = raw[i].close
             /\ \E i \in members : out[k].high = raw[i].high
             /\ \A i \in members : raw[i].high <= out[k].high
             /\ \E i \in members : out[k].low = raw[i].low
             /\ \A i \in members : out[k].low <= raw[i].low
             /\ out[k].volume = total_volume(raw, members)
    /\ \A i \in DOMAIN raw :
          \E k \in DOMAIN out :
              out[k].t <= raw[i].t /\ raw[i].t < out[k].t + minutes
    /\ \A k1, k2 \in DOMAIN out : k1 < k2 => out[k1].t < out[k2].t

\* C27. Resample correctness: for a base series and a coarser target T,
\* each returned bar at aligned timestamp t aggregates exactly the base
\* bars in [t, t+T): open is the first open, high the max high, low the
\* min low, close the last close, volume the sum of volumes; intervals
\* with no base bar produce no output bar; the base series is returned
\* unmodified under the base key.
C27_ResampleCorrect ==
    (call.kind = "data" /\ call.outcome = "ok") =>
        /\ call.data[call.symbol.min_timeframe] = call.resp.bars
        /\ \A tf \in DOMAIN call.data :
              bar_minutes[tf] > bar_minutes[call.symbol.min_timeframe] =>
                  aggregates(call.data[tf], call.resp.bars, bar_minutes[tf])

\* Ten M1 bars with closes 0..9 and volume 1 each, target M5: two bars,
\* closes 4 and 9, volume 5 each.
C27_Witness ==
    /\ call.kind = "data"
    /\ call.symbol.min_timeframe = "M1"
    /\ call.resp.bars = SequentialSeries(1)
    /\ DOMAIN call.data = {"M1", "M5"}
    /\ Len(call.data["M5"]) = 2
    /\ call.data["M5"][1].close = 4 /\ call.data["M5"][1].volume = 5
    /\ call.data["M5"][2].close = 9 /\ call.data["M5"][2].volume = 5

(***************************************************************************)
(* Properties of the risk evaluator                                        *)
(***************************************************************************)

\* Equity after the first k trades, from initial_balance.
RECURSIVE equity_after(_, _)
equity_after(trades, k) ==
    IF k = 0 THEN risk_limits.initial_balance
    ELSE equity_after(trades, k - 1) + trades[k].pnl

\* Highest equity up to the first k trades, initial_balance included.
peak_after(trades, k) ==
    CHOOSE p \in {equity_after(trades, j) : j \in 0..k} :
        \A j \in 0..k : equity_after(trades, j) <= p

\* (peak - equity) / peak * 100 after the first k trades, as a fraction.
prefix_drawdown(trades, k) ==
    <<(peak_after(trades, k) - equity_after(trades, k)) * 100,
      peak_after(trades, k)>>

FracEQ(a, b) == a[1] * b[2] = b[1] * a[2]

\* dd is the largest prefix_drawdown of trades, 0 when there is none.
is_max_prefix_drawdown(dd, trades) ==
    /\ \A k \in 1..Len(trades) : ~FracGT(prefix_drawdown(trades, k), dd)
    /\ IF trades = <<>> THEN FracEQ(dd, <<0, 1>>)
       ELSE \E k \in 1..Len(trades) : FracEQ(prefix_drawdown(trades, k), dd)

of_symbol(trades, symbol) == SelectSeq(trades, LAMBDA t : t.symbol = symbol)

of_strategy(trades, strategy_name) ==
    SelectSeq(trades, LAMBDA t : t.strategy_name = strategy_name)

\* The prefix drawdowns of trades all are within limit.
within_limit(trades, limit) ==
    \A k \in 1..Len(trades) : FracLE(prefix_drawdown(trades, k), limit)

\* C24. Scoped risk checks depend on their own scope only:
\* check_symbol_risk_limits(X, trades) is true when X has no limit, else
\* it is the check on the trades of symbol X alone, each scope starting
\* from the full initial_balance, so a trade of another symbol added to
\* the list never changes it; check_strategy_risk_limits likewise on
\* strategy_name.
C24_ScopedChecks ==
    call.kind = "risk" =>
        /\ \A x \in SymbolNames :
              /\ call.symbol[x] <=>
                    \/ x \notin DOMAIN risk_limits.dd_por_activo
                    \/ within_limit(of_symbol(trade_history, x),
                                    risk_limits.dd_por_activo[x])
              /\ trade_history[Len(trade_history)].symbol # x =>
                    (call.symbol[x] <=> check_symbol_risk_limits(x, call.pre))
        /\ \A x \in StrategyNames :
              /\ call.strategy[x] <=>
                    \/ x \notin DOMAIN risk_limits.dd_por_estrategia
                    \/ within_limit(of_strategy(trade_history, x),
                                    risk_limits.dd_por_estrategia[x])
              /\ trade_history[Len(trade_history)].strategy_name # x =>
                    (call.strategy[x]
                       <=> check_strategy_risk_limits(x, call.pre))

\* EURUSD lost exactly its 20 percent and then GBPUSD, which has no limit,
\* lost 600: both symbols pass while the global check blocks.
C24_Witness ==
    /\ call.kind = "risk"
    /\ config = "base"
    /\ Len(trade_history) = 2
    /\ trade_history[1].symbol = "EURUSD" /\ trade_history[1].pnl = -20
    /\ trade_history[2].symbol = "GBPUSD" /\ trade_history[2].pnl = -600
    /\ call.symbol["EURUSD"] /\ call.symbol["GBPUSD"]
    /\ ~call.bot

(***************************************************************************)
(* Properties of the data window                                           *)
(***************************************************************************)

KnownTimeframes == {"M1", "M5", "M15", "M30", "H1", "H4", "D1"}

\* The candle cap of each timeframe.
cap == [M1 |-> 1440, M5 |-> 1440, M15 |-> 1000, M30 |-> 720, H1 |-> 500,
        H4 |-> 500, D1 |-> 500]

\* The coarsest timeframe of a non-empty set of known timeframes.
coarsest(timeframes) ==
    CHOOSE tf \in timeframes :
        \A other \in timeframes : bar_minutes[other] <= bar_minutes[tf]

C20_RegistryBijective ==
    /\ \A n \in RegNames :
          is_registered(strategy_to_magic, n) =>
              get_strategy_name(magic_to_strategy,
                                get_magic_number(strategy_to_magic, n)) = n
    /\ \A m \in DOMAIN magic_to_strategy :
          get_magic_number(strategy_to_magic,
                           get_strategy_name(magic_to_strategy, m)) = m
    /\ \A n1, n2 \in RegNames :
          (/\ is_registered(strategy_to_magic, n1)
           /\ is_registered(strategy_to_magic, n2)
           /\ n1 # n2)
          => get_magic_number(strategy_to_magic, n1)
               # get_magic_number(strategy_to_magic, n2)
    /\ call.kind = "register" =>
          get_magic_number(strategy_to_magic, call.strategy_name) = call.returned

\* C21. Registry stability: once a name is registered, get_magic_number
\* of it returns the same value after any later register_strategy call,
\* for the same or another name; register_strategy on a registered name
\* returns the existing magic number and changes neither map; no entry is
\* ever removed.
C21_RegistryStable ==
    [][/\ \A n \in RegNames :
             is_registered(strategy_to_magic, n) =>
                /\ is_registered(strategy_to_magic', n)
                /\ get_magic_number(strategy_to_magic', n)
                      = get_magic_number(strategy_to_magic, n)
       /\ \A m \in DOMAIN magic_to_strategy :
             get_strategy_name(magic_to_strategy', m)
               = get_strategy_name(magic_to_strategy, m)
       /\ is_registered(strategy_to_magic, call'.strategy_name) =>
             /\ call'.returned
                   = get_magic_number(strategy_to_magic, call'.strategy_name)
             /\ strategy_to_magic' = strategy_to_magic
             /\ magic_to_strategy' = magic_to_strategy]_vars

\* A registered name, moved on from a colliding candidate, was registered
\* again after another name: it got the magic number it had.
C21_Witness ==
    /\ call.kind = "register"
    /\ call.strategy_name \in DOMAIN call.pre
    /\ call.returned = call.pre[call.strategy_name]
    /\ call.returned # hash_of[call.strategy_name]
    /\ Cardinality(DOMAIN strategy_to_magic) = 3

\* Three names whose candidates all are 2**31 - 1 are registered: the
\* second and the third were moved on, past the wrap to 0.
C20_Witness ==
    /\ \A n \in RegNames : hash_of[n] = MagicMax
    /\ \A n \in RegNames : is_registered(strategy_to_magic, n)
    /\ Range(strategy_to_magic) = {MagicMax, 0, 1}

\* (c + j) modulo 2**31 for c in [0, 2**31) and a small j >= 0, without
\* leaving 32 bits.
plus_mod(c, j) ==
    IF c > MagicMax - j THEN c - (MagicMax - j) - 1 ELSE c + j

\* C32. Magic-number range and collision policy: every magic number
\* register_strategy assigns lies in [0, 2^31); when the hash candidate c
\* of a new name is taken, the assigned value is the first free value of
\* c+1, c+2, ... modulo 2^31, so the assignment is determined by the
\* registration order.
C32_FirstFreeProbe ==
    /\ \A n \in DOMAIN strategy_to_magic :
          strategy_to_magic[n] \in 0..MagicMax
    /\ (call.kind = "register" /\ call.strategy_name \notin DOMAIN call.pre) =>
          \E k \in 0..Cardinality(DOMAIN call.pre) :
              /\ call.returned = plus_mod(hash_of[call.strategy_name], k)
              /\ call.returned \notin Range(call.pre)
              /\ \A j \in 0..(k - 1) :
                    plus_mod(hash_of[call.strategy_name], j) \in Range(call.pre)

\* A new name with candidate 2**31 - 2 met 2**31 - 2 and 2**31 - 1 taken
\* and was given 0.
C32_Witness ==
    /\ call.kind = "register"
    /\ call.strategy_name \notin DOMAIN call.pre
    /\ hash_of[call.strategy_name] = MagicMax - 1
    /\ Range(call.pre) = {MagicMax - 1, MagicMax}
    /\ call.returned = 0

(***************************************************************************)
(* Properties of the order executor                                        *)
(***************************************************************************)

\* C7. sync_state replaces, never merges: after a sync_state whose broker
\* call returned list L, the keys of the mirror are exactly the keys of the
\* positions of L, every entry is a position of L, and every earlier entry
\* whose key is not in L is gone.
C7_SyncReplaces ==
    (call.kind = "sync" /\ ~call.resp.raised)
        => LET L == call.resp.positions
               keys == {_generate_position_key(L[i].symbol, L[i].magic_number) :
                          i \in DOMAIN L}
           IN /\ DOMAIN open_positions = keys
              /\ \A k \in DOMAIN open_positions : open_positions[k] \in Range(L)
              /\ \A k \in DOMAIN call.pre \ keys : k \notin DOMAIN open_positions

\* A locally registered entry (entry_price 0) that the broker's non-empty
\* list does not contain has disappeared.
C7_Witness ==
    /\ call.kind = "sync"
    /\ ~call.resp.raised
    /\ call.resp.positions # <<>>
    /\ \E k \in DOMAIN call.pre :
          call.pre[k].entry_price = 0 /\ k \notin DOMAIN open_positions

\* C8. sync_state under broker error: when get_open_positions raises,
\* sync_state returns and the mirror is exactly the map it was before.
C8_SyncErrorKeepsMirror ==
    (call.kind = "sync" /\ call.resp.raised) => open_positions = call.pre

\* The broker raised while the mirror held entries.
C8_Witness ==
    /\ call.kind = "sync"
    /\ call.resp.raised
    /\ DOMAIN call.pre # {}
    /\ open_positions = call.pre

\* C9. execute_order on broker rejection: the result is returned unchanged
\* and the mirror is unmodified for BUY, SELL and CLOSE; has_open_position
\* answers for the order's symbol and magic number as it did before.
C9_RejectionKeepsMirror ==
    (call.kind = "execute" /\ ~call.result.success)
        => /\ call.returned = call.result
           /\ open_positions = call.pre
           /\ has_open_position(open_positions, call.req.symbol, NoneStr,
                                call.req.magic_number)
                 = has_open_position(call.pre, call.req.symbol, NoneStr,
                                     call.req.magic_number)

\* A rejected CLOSE whose position is in the mirror.
C9_Witness ==
    /\ call.kind = "execute"
    /\ ~call.result.success
    /\ call.req.order_type = "CLOSE"
    /\ _generate_position_key(call.req.symbol, call.req.magic_number)
          \in DOMAIN call.pre
    /\ open_positions = call.pre

\* C10. execute_order on acceptance touches exactly one key: an accepted
\* BUY/SELL sets the entry at key(symbol, magic) with entry_price 0, an
\* accepted CLOSE with a magic number removes the entry at key(symbol,
\* magic); every other entry is unchanged.
C10_AcceptanceTouchesOneKey ==
    (call.kind = "execute" /\ call.result.success)
        => LET key == _generate_position_key(call.req.symbol,
                                             call.req.magic_number)
           IN /\ call.req.order_type \in {"BUY", "SELL"}
                    => /\ DOMAIN open_positions = DOMAIN call.pre \cup {key}
                       /\ open_positions[key].entry_price = 0
                       /\ open_positions[key].symbol = call.req.symbol
                       /\ open_positions[key].magic_number = call.req.magic_number
                       /\ \A k \in DOMAIN call.pre \ {key} :
                             open_positions[k] = call.pre[k]
              /\ (call.req.order_type = "CLOSE" /\ call.req.magic_number # None)
                    => /\ DOMAIN open_positions = DOMAIN call.pre \ {key}
                       /\ \A k \in DOMAIN call.pre \ {key} :
                             open_positions[k] = call.pre[k]

\* An accepted CLOSE of (EURUSD, 0) removed that entry and left the EURUSD
\* position without magic number in place.
C10_Witness ==
    /\ call.kind = "execute"
    /\ call.result.success
    /\ call.req.order_type = "CLOSE"
    /\ call.req.symbol = "EURUSD"
    /\ call.req.magic_number = 0
    /\ {"EURUSD", "EURUSD_0"} \subseteq DOMAIN call.pre
    /\ call.pre["EURUSD_0"].symbol = "EURUSD"
    /\ "EURUSD" \in DOMAIN open_positions
    /\ "EURUSD_0" \notin DOMAIN open_positions

====
